---- MODULE Spec2Model ----
(***************************************************************************)
(* Cover-art resolution pipeline of NeuralCast (src/album_art.py).         *)
(*                                                                         *)
(* Scores are kept in hundredths (a Python score of 12.5 is 1250 here), so *)
(* that round(x, 2) is exact; string similarities are percentages.         *)
(* Strings come from a closed universe; the text functions are tabulated   *)
(* on that universe from what the Python functions return on it.           *)
(***************************************************************************)
EXTENDS Integers, Sequences, FiniteSets, TLC

\* ------------------------------------------------------------------------
\* Program constants
\* ------------------------------------------------------------------------
MAX_RELEASE_GROUPS == 6
MAX_RELEASES_PER_GROUP == 6
MAX_TOTAL_CANDIDATES == 14
\* release-group candidates scoring below this are dropped
MinGroupScore == 55
\* confidence floor of the primary attempt phase
ConfidenceFloor == 60
\* how many ranked candidates are tried when none clears the floor
TopRegardless == 2
\* how many ranked candidates are copied into a failure log entry
MaxRankingsLogged == 10
\* stands for datetime.datetime.max: later than every parseable date
DateMax == 99991232

\* ------------------------------------------------------------------------
\* Bounds of the model
\* ------------------------------------------------------------------------
\* resolutions per run of the process
MaxCalls == 2
\* entries in the list a release search returns
MaxHits == 2
\* entries in the list the legacy search returns
MaxLegacyHits == 2
\* verification calls per run of the process
MaxVCalls == 4
\* entries the lru_cache of verified and verified_album holds; the code has
\* 4096, scaled down here to the handful of queries a run makes
VerifiedMaxSize == 2
\* entries the lru_cache of a provider function holds; the code has 2048
ProviderMaxSize == 1
\* preliminary scores handed to the ranking stage when it is run on its own
MaxEntries == 30
\* variants of one candidate scored in one run
MaxScored == 4
\* tracks Spotify and recordings MusicBrainz return for one song
MaxItems == 2

\* ------------------------------------------------------------------------
\* The query
\* ------------------------------------------------------------------------
Artist == "Radiohead"
Album == "Kid A"

\* value of a dict key that was never set (dict.get gives None)
Unset == "<unset>"

\* ------------------------------------------------------------------------
\* Text functions, tabulated on the string universe
\* ------------------------------------------------------------------------
\* _normalize_string: NFKD, ascii fold, lower, non-alphanumerics to one space
NormalizeString(s) ==
    CASE s \in {"Kid A", "kid a ", "Kid A!"} -> "kid a"
      [] s = "Kid B" -> "kid b"
      [] s = "Radiohead" -> "radiohead"
      [] s = "Radiohead feat. X" -> "radiohead feat x"
      [] s = "Beatles" -> "beatles"
      [] s = "Karaoke Version" -> "karaoke version"
      [] s = "live" -> "live"
      [] s = "Promo CD" -> "promo cd"
      [] s = "Jewel Case" -> "jewel case"
      [] s \in {"", Unset} -> ""

\* str.strip().lower() as the legacy fallback applies it to titles
StripLower(s) ==
    CASE s \in {"Kid A", "kid a "} -> "kid a"
      [] s = "Kid A!" -> "kid a!"
      [] s = "Kid B" -> "kid b"
      [] s = "" -> ""

\* `a in b` of Python on normalized strings
Contains(a, b) ==
    \/ a = ""
    \/ a = b
    \/ a = "radiohead" /\ b = "radiohead feat x"
    \/ a = "karaoke" /\ b = "karaoke version"
    \/ a = "promo" /\ b = "promo cd"

\* _string_similarity: SequenceMatcher(None, a, b).ratio(), in percent
StringSimilarity(a, b) ==
    IF a = "" \/ b = "" THEN 0
    ELSE IF a = b THEN 100
    ELSE IF {a, b} = {"kid a", "kid b"} THEN 80
    ELSE IF {a, b} = {"radiohead", "radiohead feat x"} THEN 72
    ELSE IF {a, b} = {"radiohead", "beatles"} THEN 25
    ELSE 0

\* _coerce_bool on the values a cover-art-archive field takes
CoerceBool(v) ==
    CASE v \in {"True", "'true'", "'True'", "1"} -> TRUE
      [] v \in {"False", "'false'", "None", "0", Unset} -> FALSE

\* A date string is the sequence of its numeric components: "1997-05-21" is
\* <<1997, 5, 21>>, "1997" is <<1997>>, "" and anything malformed is <<>>.
DaysIn(y, m) ==
    IF m \in {4, 6, 9, 11} THEN 30
    ELSE IF m = 2 THEN (IF y % 4 = 0 /\ (y % 100 # 0 \/ y % 400 = 0) THEN 29 ELSE 28)
    ELSE 31

\* _parse_release_date: %Y-%m-%d, then %Y-%m, then %Y, else datetime.max
ParseReleaseDate(d) ==
    IF Len(d) = 3 /\ d[1] \in 1..9999 /\ d[2] \in 1..12 /\ d[3] \in 1..DaysIn(d[1], d[2])
    THEN d[1] * 10000 + d[2] * 100 + d[3]
    ELSE IF Len(d) = 2 /\ d[1] \in 1..9999 /\ d[2] \in 1..12
    THEN d[1] * 10000 + d[2] * 100 + 1
    ELSE IF Len(d) = 1 /\ d[1] \in 1..9999
    THEN d[1] * 10000 + 101
    ELSE DateMax

\* ------------------------------------------------------------------------
\* Sequence helpers
\* ------------------------------------------------------------------------
Max2(a, b) == IF a >= b THEN a ELSE b

Prefix(s, n) == IF Len(s) <= n THEN s ELSE SubSeq(s, 1, n)

Range(s) == {s[i] : i \in DOMAIN s}

RECURSIVE MaxOf(_, _)
MaxOf(start, s) ==
    IF s = <<>> THEN start ELSE MaxOf(Max2(start, Head(s)), Tail(s))

\* list.sort / sorted of Python: stable, ascending on the pair (k1, k2).
\* Items are records [k1, k2, v].
KeyLess(a, b) == a.k1 < b.k1 \/ (a.k1 = b.k1 /\ a.k2 < b.k2)

RECURSIVE InsertStable(_, _)
InsertStable(sorted, x) ==
    IF sorted = <<>> THEN <<x>>
    ELSE IF KeyLess(x, sorted[Len(sorted)])
         THEN Append(InsertStable(SubSeq(sorted, 1, Len(sorted) - 1), x), sorted[Len(sorted)])
         ELSE Append(sorted, x)

RECURSIVE StableSort(_)
StableSort(s) ==
    IF s = <<>> THEN <<>>
    ELSE InsertStable(StableSort(SubSeq(s, 1, Len(s) - 1)), s[Len(s)])

Values(s) == [i \in DOMAIN s |-> s[i].v]

\* ------------------------------------------------------------------------
\* Provider records
\*   group  : [id, title, score, acp, credits, ptype, secondary,
\*             disambiguation, exp]   (exp: what expanding the group gives)
\*   stub   : [id, title, status, disambiguation, date]  (release of a group)
\*   hit    : [id, title, score, acp, status, disambiguation, date, rg]
\*            rg: [present, id, title, ptype, secondary]
\*   detail : [id, title, status, acp, credits, cover, disambiguation,
\*             packaging, date, event_dates]   cover: [present, front, artwork]
\* A key the provider left out, or gave as None, is "" (or <<>> for a date).
\* ------------------------------------------------------------------------
AnyKeyword(keywords, text) == \E k \in keywords : Contains(k, text)

BlockedSecondaryGroup == {"Compilation", "Interview", "Audiobook", "Spokenword", "DJ-mix"}
BlockedSecondarySearch == {"Compilation", "Interview"}

\* _score_release_group
ScoreReleaseGroup(g, normalized_artist, normalized_album) ==
    LET title_sim == StringSimilarity(normalized_album, NormalizeString(g.title))
        phrase_sim == StringSimilarity(normalized_artist, NormalizeString(g.acp))
        credit_sims == [i \in DOMAIN g.credits |->
                          StringSimilarity(normalized_artist, NormalizeString(g.credits[i]))]
        artist_sim == IF phrase_sim < 80 THEN MaxOf(phrase_sim, credit_sims) ELSE phrase_sim
        type_adj == IF g.ptype = "Album" THEN 800 ELSE IF g.ptype # "" THEN -400 ELSE 0
        secondary_adj == IF g.secondary \cap BlockedSecondaryGroup # {} THEN -1200 ELSE 0
        disambig == NormalizeString(g.disambiguation)
        disambig_adj ==
            IF disambig # "" /\ AnyKeyword({"tribute", "karaoke", "cover", "instrumental", "demo"}, disambig)
            THEN -1000 ELSE 0
    IN  g.score * 100 + title_sim * 35 + artist_sim * 25 + type_adj + secondary_adj + disambig_adj

\* _release_matches_artist
ReleaseMatchesArtist(release, normalized_artist) ==
    LET phrase == NormalizeString(release.acp)
        Close(name) ==
            \/ Contains(normalized_artist, name)
            \/ Contains(name, normalized_artist)
            \/ StringSimilarity(normalized_artist, name) >= 82
    IN  \/ normalized_artist = ""
        \/ phrase # "" /\ Close(phrase)
        \/ \E i \in DOMAIN release.credits :
              LET name == NormalizeString(release.credits[i])
              IN  name # "" /\ Close(name)

\* the cover-art-archive branch of _score_release
CoverAdjustment(cover) ==
    IF cover.present /\ CoerceBool(cover.front) THEN 1500
    ELSE IF cover.present /\ CoerceBool(cover.artwork) THEN 800
    ELSE IF cover.present THEN -500
    ELSE -1000

\* the status branch of _score_release
StatusAdjustment(status) ==
    IF status = "Official" THEN 2500
    ELSE IF status \in {"Promotion", "Bootleg"} THEN -1000
    ELSE 0

\* _score_release
ScoreRelease(release, normalized_artist, normalized_album) ==
    LET title_sim == StringSimilarity(normalized_album, NormalizeString(release.title))
        artist_adj ==
            IF ReleaseMatchesArtist(release, normalized_artist) THEN 2500
            ELSE StringSimilarity(normalized_artist, NormalizeString(release.acp)) * 15
        disambig == NormalizeString(release.disambiguation)
        disambig_adj ==
            IF disambig # "" /\ AnyKeyword({"karaoke", "tribute", "backing track"}, disambig) THEN -1800
            ELSE IF disambig # "" /\ AnyKeyword({"demo", "remix", "instrumental", "live"}, disambig) THEN -600
            ELSE 0
        packaging == NormalizeString(release.packaging)
        packaging_adj == IF packaging # "" /\ Contains("promo", packaging) THEN -500 ELSE 0
    IN  StatusAdjustment(release.status) + title_sim * 40 + artist_adj
        + CoverAdjustment(release.cover) + disambig_adj + packaging_adj

\* _score_release_search_entry
ScoreReleaseSearchEntry(release, normalized_artist, normalized_album) ==
    LET title_sim == StringSimilarity(normalized_album, NormalizeString(release.title))
        phrase_sim == StringSimilarity(normalized_artist, NormalizeString(release.acp))
        type_adj == IF release.rg.present /\ release.rg.ptype = "Album" THEN 600 ELSE 0
        secondary_adj ==
            IF release.rg.present /\ release.rg.secondary \cap BlockedSecondarySearch # {}
            THEN -800 ELSE 0
        status_adj == IF release.status = "Official" THEN 800 ELSE 0
        disambig == NormalizeString(release.disambiguation)
        disambig_adj ==
            IF disambig # "" /\ AnyKeyword({"karaoke", "tribute", "cover"}, disambig)
            THEN -1000 ELSE 0
    IN  release.score * 100 + title_sim * 30 + phrase_sim * 20
        + type_adj + secondary_adj + status_adj + disambig_adj

\* _release_primary_date: the release date, else the first dated release event
RECURSIVE FirstDated(_)
FirstDated(event_dates) ==
    IF event_dates = <<>> THEN <<>>
    ELSE IF Head(event_dates) # <<>> THEN Head(event_dates)
    ELSE FirstDated(Tail(event_dates))

ReleasePrimaryDate(release) ==
    IF release.date # <<>> THEN release.date ELSE FirstDated(release.event_dates)

\* ------------------------------------------------------------------------
\* _collect_release_candidates: aggregation
\* The dict preliminary_scores (with metadata and sources beside it) is the
\* sequence of its entries [id, score, meta, sources] in insertion order,
\* which is the order sorted() sees.
\* ------------------------------------------------------------------------
EmptyMeta ==
    [release_group_id |-> Unset, release_group_title |-> Unset, release_title |-> Unset,
     status_hint |-> Unset, disambiguation_hint |-> Unset]

\* dict.setdefault
SetDefault(meta, key, value) ==
    IF meta[key] = Unset THEN [meta EXCEPT ![key] = value] ELSE meta

\* `if x: meta.setdefault(key, x)`
SetDefaultIfTruthy(meta, key, value) ==
    IF value # "" THEN SetDefault(meta, key, value) ELSE meta

HasId(entries, id) == \E i \in DOMAIN entries : entries[i].id = id

IndexOfId(entries, id) == CHOOSE i \in DOMAIN entries : entries[i].id = id

\* variant: the scores of the sightings add up
MergeScoreSum(old, new) == old + new

\* how two sightings of one release combine their preliminary scores
MergeScore(old, new) == Max2(old, new)

\* preliminary_scores[release_id] = max(old, value), or = value when new
UpsertScore(entries, id, value) ==
    IF HasId(entries, id)
    THEN [entries EXCEPT ![IndexOfId(entries, id)].score = MergeScore(@, value)]
    ELSE Append(entries, [id |-> id, score |-> value, meta |-> EmptyMeta, sources |-> {}])

\* the metadata a release seen in an expanded group contributes
GroupMeta(meta, group, release) ==
    LET m1 == SetDefault(meta, "release_group_id", group.id)
        m2 == SetDefault(m1, "release_group_title", group.title)
        m3 == SetDefaultIfTruthy(m2, "release_title", release.title)
        m4 == SetDefaultIfTruthy(m3, "status_hint", release.status)
    IN  SetDefaultIfTruthy(m4, "disambiguation_hint", release.disambiguation)

\* the metadata a release-search hit contributes
SearchMeta(meta, release) ==
    LET m1 == SetDefaultIfTruthy(meta, "release_title", release.title)
        m2 == SetDefaultIfTruthy(m1, "status_hint", release.status)
        m3 == IF release.rg.present
              THEN SetDefault(SetDefault(m2, "release_group_title", release.rg.title),
                              "release_group_id", release.rg.id)
              ELSE m2
    IN  SetDefaultIfTruthy(m3, "disambiguation_hint", release.disambiguation)

\* body of the loop over one expanded group's releases (lines 333-355)
RECURSIVE MergeGroupReleases(_, _, _, _, _, _)
MergeGroupReleases(release_list, rel_rank, group, group_score, group_rank, entries) ==
    IF rel_rank > Len(release_list) THEN entries
    ELSE
      LET release == release_list[rel_rank]
          base_value == group_score - group_rank * 500 - (rel_rank - 1) * 200
          e1 == UpsertScore(entries, release.id, base_value)
          i == IndexOfId(e1, release.id)
          e2 == [e1 EXCEPT ![i].meta = GroupMeta(@, group, release),
                           ![i].sources = @ \cup {"release-group"}]
      IN  MergeGroupReleases(release_list, rel_rank + 1, group, group_score, group_rank,
                             IF release.id = "" THEN entries ELSE e2)

\* release_list.sort(key=parsed date), then the first MAX_RELEASES_PER_GROUP
SortedGroupReleases(release_list) ==
    Prefix(Values(StableSort([i \in DOMAIN release_list |->
              [k1 |-> ParseReleaseDate(release_list[i].date), k2 |-> 0, v |-> release_list[i]]])),
           MAX_RELEASES_PER_GROUP)

\* the loop over the top release groups (lines 318-355); scored is the
\* sequence of [score, group], rank counts from 1 here and from 0 in Python
RECURSIVE ExpandGroups(_, _, _)
ExpandGroups(scored, rank, entries) ==
    IF rank > Len(scored) THEN [raised |-> FALSE, entries |-> entries]
    ELSE
      LET group == scored[rank].group
      IN  IF group.id = "" \/ group.exp.kind = "wse"
          THEN ExpandGroups(scored, rank + 1, entries)
          ELSE IF group.exp.kind = "error"
          THEN [raised |-> TRUE, entries |-> entries]
          ELSE ExpandGroups(scored, rank + 1,
                  MergeGroupReleases(SortedGroupReleases(group.exp.releases), 1, group,
                                     scored[rank].score, rank - 1, entries))

\* scored, filtered and ranked release groups (lines 309-319)
ReleaseGroupCandidates(groups, normalized_artist, normalized_album) ==
    LET scored == [i \in DOMAIN groups |->
                     [score |-> ScoreReleaseGroup(groups[i], normalized_artist, normalized_album),
                      group |-> groups[i]]]
        kept == SelectSeq(scored, LAMBDA c : c.score >= MinGroupScore * 100)
        ranked == Values(StableSort([i \in DOMAIN kept |->
                     [k1 |-> 0 - kept[i].score, k2 |-> 0, v |-> kept[i]]]))
    IN  Prefix(ranked, MAX_RELEASE_GROUPS)

\* the loop over the release-search hits (lines 372-395)
RECURSIVE MergeSearchHits(_, _, _, _, _)
MergeSearchHits(release_list, idx, normalized_artist, normalized_album, entries) ==
    IF idx > Len(release_list) THEN entries
    ELSE
      LET release == release_list[idx]
          base_score == ScoreReleaseSearchEntry(release, normalized_artist, normalized_album)
                        - (idx - 1) * 150
          e1 == UpsertScore(entries, release.id, base_score)
          i == IndexOfId(e1, release.id)
          e2 == [e1 EXCEPT ![i].meta = SearchMeta(@, release),
                           ![i].sources = @ \cup {"release-search"}]
      IN  MergeSearchHits(release_list, idx + 1, normalized_artist, normalized_album,
                          IF release.id = "" THEN entries ELSE e2)

\* ------------------------------------------------------------------------
\* Provider calls.  A search response is [kind, list, retry]:
\*   "ok"          the call returns list
\*   "wse"         it raises musicbrainzngs.WebServiceError
\*   "type_error"  it raises TypeError (the installed library rejects the
\*                 keyword arguments); the code then retries, and retry is
\*                 what the second call does: "ok", "wse" or "error"
\*   "error"       it raises any other exception
\* ------------------------------------------------------------------------
\* the try/except around a search call (lines 292-307 and 357-370):
\* the list the code goes on with, or raised when the exception escapes
GuardedSearch(response) ==
    CASE response.kind = "ok" -> [raised |-> FALSE, list |-> response.list]
      [] response.kind = "wse" -> [raised |-> FALSE, list |-> <<>>]
      [] response.kind = "type_error" ->
            (CASE response.retry = "ok" -> [raised |-> FALSE, list |-> response.list]
               [] response.retry = "wse" -> [raised |-> FALSE, list |-> <<>>]
               [] OTHER -> [raised |-> TRUE, list |-> <<>>])
      [] OTHER -> [raised |-> TRUE, list |-> <<>>]

\* a detail response is [kind, release] with kind "ok", "wse", "error" or
\* "empty" (no "release" key)
\* variant: the record fetched is not stored
GetReleaseDetailsForgets(release_id, response, release_cache) ==
    IF release_id \in DOMAIN release_cache
    THEN [found |-> TRUE, release |-> release_cache[release_id], cache |-> release_cache,
          called |-> FALSE]
    ELSE [found |-> response.kind = "ok", release |-> response.release,
          cache |-> release_cache, called |-> TRUE]

\* variant: a release found in the cache is not returned
GetReleaseDetailsDropsHit(release_id, response, release_cache) ==
    IF release_id \in DOMAIN release_cache
    THEN [found |-> FALSE, release |-> release_cache[release_id], cache |-> release_cache,
          called |-> FALSE]
    ELSE IF response.kind = "ok"
    THEN [found |-> TRUE, release |-> response.release,
          cache |-> (release_id :> response.release) @@ release_cache, called |-> TRUE]
    ELSE [found |-> FALSE, release |-> response.release, cache |-> release_cache,
          called |-> TRUE]

\* _get_release_details: [found, release, cache, called]; called tells
\* whether get_release_by_id was called
GetReleaseDetails(release_id, response, release_cache) ==
    IF release_id \in DOMAIN release_cache
    THEN [found |-> TRUE, release |-> release_cache[release_id], cache |-> release_cache,
          called |-> FALSE]
    ELSE IF response.kind = "ok"
    THEN [found |-> TRUE, release |-> response.release,
          cache |-> (release_id :> response.release) @@ release_cache, called |-> TRUE]
    ELSE [found |-> FALSE, release |-> response.release, cache |-> release_cache,
          called |-> TRUE]

\* candidate_info (lines 407-421); metadata keys never set stay Unset
CandidateInfo(entry, release_details, normalized_artist, normalized_album) ==
    [release |-> release_details,
     base_score |-> entry.score,
     final_score |-> entry.score + ScoreRelease(release_details, normalized_artist, normalized_album),
     primary_date |-> ReleasePrimaryDate(release_details),
     sources |-> entry.sources,
     status |-> release_details.status,
     meta |-> entry.meta]

\* the detail loop (lines 401-422): [candidates, cache]
\* candidates = [] before the detail loop, and no provider call yet
NothingScored == [candidates |-> <<>>, calls |-> <<>>]

RECURSIVE ScoreShortlist(_, _, _, _, _, _)
ScoreShortlist(items, k, details, release_cache, acc, names) ==
    IF k > Len(items)
    THEN [candidates |-> acc.candidates, cache |-> release_cache, calls |-> acc.calls]
    ELSE
      LET got == GetReleaseDetails(items[k].id, details[items[k].id], release_cache)
      IN  ScoreShortlist(items, k + 1, details, got.cache,
              [candidates |->
                   IF got.found
                   THEN Append(acc.candidates,
                               CandidateInfo(items[k], got.release, names[1], names[2]))
                   ELSE acc.candidates,
               calls |-> IF got.called THEN Append(acc.calls, items[k].id) ELSE acc.calls],
              names)

\* sorted(preliminary_scores.items(), key=score, reverse=True)[:28]
Shortlist(entries) ==
    Prefix(Values(StableSort([i \in DOMAIN entries |->
              [k1 |-> 0 - entries[i].score, k2 |-> 0, v |-> entries[i]]])),
           MAX_TOTAL_CANDIDATES * 2)

\* variant: the sort looks at the final score only
RankCandidatesByScoreOnly(cands) ==
    Prefix(Values(StableSort([i \in DOMAIN cands |->
              [k1 |-> 0 - cands[i].final_score, k2 |-> 0, v |-> cands[i]]])),
           MAX_TOTAL_CANDIDATES)

\* candidates.sort(key=(-final_score, parsed primary date))[:14]
RankCandidates(cands) ==
    Prefix(Values(StableSort([i \in DOMAIN cands |->
              [k1 |-> 0 - cands[i].final_score,
               k2 |-> ParseReleaseDate(cands[i].primary_date),
               v |-> cands[i]]])),
           MAX_TOTAL_CANDIDATES)

\* preliminary_scores, metadata and sources when the three searches are
\* over (lines 285-395): [raised, entries]
PreliminaryScores(w) ==
    LET normalized_artist == NormalizeString(Artist)
        normalized_album == NormalizeString(Album)
        rg == GuardedSearch(w.rg)
        expanded == ExpandGroups(
                      ReleaseGroupCandidates(rg.list, normalized_artist, normalized_album),
                      1, <<>>)
        rel == GuardedSearch(w.rel)
    IN  [raised |-> rg.raised \/ expanded.raised \/ rel.raised,
         entries |-> MergeSearchHits(rel.list, 1, normalized_artist, normalized_album,
                                     expanded.entries)]

\* _collect_release_candidates against the providers w:
\* [raised, candidates, cache]
CollectReleaseCandidates(w, release_cache) ==
    LET preliminary == PreliminaryScores(w)
        scored == ScoreShortlist(Shortlist(preliminary.entries), 1, w.detail, release_cache,
                                 NothingScored,
                                 <<NormalizeString(Artist), NormalizeString(Album)>>)
    IN  IF preliminary.raised
        THEN [raised |-> TRUE, candidates |-> <<>>, cache |-> release_cache,
              calls |-> <<>>]
        ELSE [raised |-> FALSE, candidates |-> RankCandidates(scored.candidates),
              cache |-> scored.cache, calls |-> scored.calls]

\* ------------------------------------------------------------------------
\* The providers of a run.  Records are built from a few profiles.
\* ------------------------------------------------------------------------
RelIds == {"r1", "r2", "r3"}

NoCover == [present |-> FALSE, front |-> Unset, artwork |-> Unset]
FrontCover == [present |-> TRUE, front |-> "True", artwork |-> "True"]

NoGroup == [present |-> FALSE, id |-> "", title |-> "", ptype |-> "", secondary |-> {}]
AlbumGroup == [present |-> TRUE, id |-> "g1", title |-> "Kid A", ptype |-> "Album", secondary |-> {}]

\* full records: an official release with a front cover, and a bootleg
StrongDetail(id) ==
    [id |-> id, title |-> "Kid A", status |-> "Official", acp |-> "Radiohead",
     credits |-> <<>>, cover |-> FrontCover, disambiguation |-> "", packaging |-> "",
     date |-> <<2000, 10, 2>>, event_dates |-> <<>>]

WeakDetail(id, title) ==
    [id |-> id, title |-> title, status |-> "Bootleg", acp |-> "Beatles",
     credits |-> <<>>, cover |-> NoCover, disambiguation |-> "live", packaging |-> "",
     date |-> <<>>, event_dates |-> << <<>>, <<1999>> >>]

\* search hits
Hit(id, title, status, rg, date) ==
    [id |-> id, title |-> title, score |-> 0,
     acp |-> IF status = "Official" THEN "Radiohead" ELSE "Beatles",
     status |-> status, disambiguation |-> "", date |-> date, rg |-> rg]

Stub(id, date) ==
    [id |-> id, title |-> "Kid A", status |-> "Official", disambiguation |-> "", date |-> date]

Group(id, exp) ==
    [id |-> id, title |-> "Kid A", score |-> 0, acp |-> "Radiohead", credits |-> <<>>,
     ptype |-> "Album", secondary |-> {}, disambiguation |-> "", exp |-> exp]

Ok(list) == [kind |-> "ok", list |-> list, retry |-> "ok"]
Fails(kind) == [kind |-> kind, list |-> <<>>, retry |-> "ok"]
Retried(retry, list) == [kind |-> "type_error", list |-> list, retry |-> retry]

Expansion(kind, releases) == [kind |-> kind, releases |-> releases]

Detail(kind, release) == [kind |-> kind, release |-> release]

SeqsUpTo(S, n) == UNION {[1..k -> S] : k \in 0..n}

\* what the strict release search may return
SearchHits ==
    {Hit("r1", "Kid A", "Official", AlbumGroup, <<2000>>),
     Hit("r2", "Kid B", "Bootleg", NoGroup, <<>>),
     Hit("r3", "kid a ", "Bootleg", NoGroup, <<1999>>),
     Hit("", "Kid A", "Official", AlbumGroup, <<2000>>)}

\* what the legacy search may return
LegacyHits ==
    {Hit("r1", "Kid A", "Official", AlbumGroup, <<2000, 10>>),
     Hit("r2", "kid a ", "Bootleg", NoGroup, <<1999>>),
     Hit("r3", "Kid A", "Official", AlbumGroup, <<2000>>),
     Hit("r2", "Kid A!", "Official", AlbumGroup, <<1998>>),
     Hit("", "Kid A", "Official", AlbumGroup, <<1997>>)}

RgResponses ==
    {Ok(<<>>), Fails("wse"), Fails("error"),
     Ok(<<Group("g1", Expansion("ok", <<Stub("r2", <<2001>>), Stub("r1", <<2000>>), Stub("", <<>>)>>))>>),
     Ok(<<Group("", Expansion("ok", <<>>)), Group("g1", Expansion("wse", <<>>))>>),
     Ok(<<Group("g1", Expansion("error", <<>>))>>),
     Retried("ok", <<Group("g1", Expansion("ok", <<Stub("r3", <<>>)>>))>>),
     Ok(<<Group("g1", Expansion("ok", <<Stub("", <<1990>>), Stub("", <<1991>>),
                                        Stub("", <<1992>>), Stub("r1", <<2000>>)>>)),
          Group("g2", Expansion("ok", <<Stub("r1", <<2000>>), Stub("r3", <<>>)>>))>>),
     Ok(<<[Group("g1", Expansion("ok", <<Stub("r1", <<2000>>)>>))
              EXCEPT !.title = "", !.score = 100]>>),
     Retried("error", <<>>)}

RelResponses ==
    {Ok(l) : l \in SeqsUpTo(SearchHits, MaxHits)}
    \cup {Fails("wse"), Fails("error"), Retried("wse", <<>>)}

\* what fetching the full record of each release gives: r1 is official or a
\* bootleg without a title, r2 is a bootleg, has been merged into r1 (the
\* record carries r1's id), carries no id, or cannot be fetched, r3 is a
\* bootleg or missing
DetailResponses ==
    {[r \in RelIds |-> CASE r = "r1" -> d1 [] r = "r2" -> d2 [] OTHER -> d3] :
        d1 \in {Detail("ok", StrongDetail("r1")), Detail("ok", WeakDetail("r1", ""))},
        d2 \in {Detail("ok", WeakDetail("r2", "")), Detail("ok", WeakDetail("r1", "")),
                Detail("ok", WeakDetail("", "Kid B")), Detail("error", WeakDetail("", ""))},
        d3 \in {Detail("ok", WeakDetail("r3", "kid a ")), Detail("empty", WeakDetail("", ""))}}

LegacyResponses ==
    {Ok(l) : l \in SeqsUpTo(LegacyHits, MaxLegacyHits)}
    \cup {Fails("wse"), Fails("error")}

\* The runs explored: every release-group search with a few release
\* searches, a few release-group searches with every release search, both
\* with every detail response and one legacy response, and a few
\* collection-side responses with every legacy response.
FewLegacyResponses ==
    {Ok(<<Hit("r2", "kid a ", "Bootleg", NoGroup, <<1999>>),
          Hit("r3", "Kid A", "Official", AlbumGroup, <<2000>>)>>)}

World(rg, rel, detail, legacy) ==
    [rg |-> rg, rel |-> rel, detail |-> detail, legacy |-> legacy]

FewCollections ==
    {World(Ok(<<>>), Ok(<<>>), d, Fails("wse")) : d \in DetailResponses}
    \cup {World(Fails("wse"), Ok(l), d, Fails("wse")) :
             l \in SeqsUpTo(SearchHits, 1), d \in DetailResponses}

\* the releases whose full record a run can ask for
Referenced(w) ==
    {w.rel.list[i].id : i \in DOMAIN w.rel.list}
    \cup UNION {{w.rg.list[g].exp.releases[i].id : i \in DOMAIN w.rg.list[g].exp.releases} :
                  g \in DOMAIN w.rg.list}

\* the record of a release that no search mentions is never fetched: one
\* value stands for all
UnfetchedDetail ==
    [r \in RelIds |-> IF r = "r1" THEN Detail("ok", StrongDetail("r1"))
                      ELSE Detail("ok", WeakDetail(r, IF r = "r3" THEN "kid a " ELSE ""))]

\* the release-group searches combined with every release search
FewRgResponses ==
    {Ok(<<>>),
     Ok(<<Group("g1", Expansion("ok", <<Stub("r2", <<2001>>), Stub("r1", <<2000>>), Stub("", <<>>)>>))>>)}

\* the release searches combined with every release-group search
FewRelResponses ==
    {Ok(l) : l \in SeqsUpTo(SearchHits, 1)}
    \cup {Fails("wse"), Fails("error"), Retried("wse", <<>>)}

Worlds ==
    {w \in [rg : RgResponses, rel : FewRelResponses, detail : DetailResponses,
            legacy : FewLegacyResponses]
           \cup [rg : FewRgResponses, rel : RelResponses, detail : DetailResponses,
                 legacy : FewLegacyResponses]
           \cup {[v EXCEPT !.legacy = l] : v \in FewCollections, l \in LegacyResponses} :
        \A r \in RelIds \ Referenced(w) : w.detail[r] = UnfetchedDetail[r]}

\* ------------------------------------------------------------------------
\* State
\* ------------------------------------------------------------------------
VARIABLES
    world,                  \* what the providers answer during this run
    release_cache,          \* _RELEASE_CACHE
    log_file,               \* lines of logs/album_art_skipped.log
    pc,                     \* where embed_from_artist_album stands
    calls,                  \* resolutions started so far
    candidates,             \* ranked candidates of the current call
    eligible_candidates,    \* the candidates the primary loop walks
    next_candidate,         \* index of the primary loop
    attempted_release_ids,  \* list shared by both phases
    legacy,                 \* locals of _legacy_exact_match_attempt
    legacy_info,            \* the dict it returns on failure
    outcome,                \* how the current call ended
    returned,               \* the value the current call returned
    trace,                  \* history: the attempts of the current call
    log_before,             \* history: log_file when the current call began
    log_write,              \* history: what the log write of the current call met
    results,                \* history: (outcome, returned value) of finished calls
    detail_calls,           \* history: the ids get_release_by_id was called with
    past_calls,             \* history: what each finished call did
    \* validators.py
    sp,                     \* whether the module built a Spotify client
    lru,                    \* the lru_cache of each decorated function
    vpc,                    \* where verified / verified_album stands
    vcall,                  \* function and arguments of the current call
    consulted,              \* history: the provider functions the call has run
    vresult,                \* the value the current call returned
    vcalls,                 \* verification calls started so far
    vhistory,               \* history: (function, arguments, value) of finished calls
    \* the ranking stage of _collect_release_candidates, run on its own
    rank_pc,                \* "off", or where the stage stands
    rank_entries,           \* preliminary_scores, in insertion order
    rank_details,           \* what fetching the full record of each entry gives
    rank_pool,              \* candidates before the final sort
    rank_out,               \* the list returned
    \* the release-level scoring functions, run on their own
    score_pc,               \* "off", or "scoring"
    score_base,             \* the candidate scored: its search hit, its full record
    score_table,            \* history: the scores computed, by variant of the candidate
    \* tools/backfill_album_names.py and guess_album of album_lookup.py
    lk_pc,                  \* "off", or where backfill_playlist stands
    lk_args,                \* prefer_spotify, min_confidence, dry_run
    lk_world,               \* the tracks Spotify and the recordings MusicBrainz return
    lk_file,                \* the rows of the playlist file
    lk_rows,                \* the rows in memory
    lk_next,                \* index of the row loop
    lk_updates,             \* updates
    lk_failures,            \* failures
    lk_guesses,             \* history: what guess_album returned, by row
    \* main.py: one playlist of main
    mn_pc,                  \* where main is in the playlist: existing, missing, download, done, raised
    mn_dry_run,             \* the dry_run argument
    mn_playlist,            \* songs as they were after deduplicate_and_sort_songs
    mn_songs,               \* songs
    mn_disk,                \* the songs whose MP3 was in music_dir when main looked
    mn_files,               \* the songs whose MP3 is in music_dir now
    mn_next,                \* position of the running loop
    mn_newly_validated,     \* newly_validated
    mn_invalid_songs,       \* invalid_existing, then invalid_songs
    mn_remove,              \* songs_to_remove_from_playlist
    mn_validation_updates,  \* validation_updates
    mn_invalid_albums,      \* invalid_albums
    mn_valid_songs,         \* valid_songs
    mn_saved,               \* what save_playlist_with_validation wrote last, when it wrote
    mn_verdicts,            \* history: the results perform_song_validation returned, in order
    mn_downloads,           \* history: the youtube_to_mp3 calls and how they ended
    \* inject_story_snippet.py: one call of wait_for_track_and_inject
    ij_pc,                  \* called, loop, returned, runtime_error (RuntimeError raised), http_error
    ij_args,                \* station_id, lead_seconds, timeout_seconds
    ij_clock,               \* seconds since the deadline was set
    ij_track_detected,      \* track_detected
    ij_pushed_request_id,   \* pushed_request_id
    ij_polls,               \* history: what get_now_playing answered, in order
    ij_commands             \* history: the send_telnet_command calls

album_art_vars ==
    <<world, release_cache, log_file, pc, calls, candidates, eligible_candidates,
      next_candidate, attempted_release_ids, legacy, legacy_info, outcome, returned,
      trace, log_before, log_write, results, detail_calls, past_calls>>

validator_vars == <<sp, lru, vpc, vcall, consulted, vresult, vcalls, vhistory>>

ranking_vars == <<rank_pc, rank_entries, rank_details, rank_pool, rank_out>>

scoring_vars == <<score_pc, score_base, score_table>>

lookup_vars == <<lk_pc, lk_args, lk_world, lk_file, lk_rows, lk_next, lk_updates, lk_failures, lk_guesses>>

main_vars == <<mn_pc, mn_dry_run, mn_playlist, mn_songs, mn_disk, mn_files, mn_next, mn_newly_validated, mn_invalid_songs, mn_remove, mn_validation_updates, mn_invalid_albums, mn_valid_songs, mn_saved, mn_verdicts, mn_downloads>>

inject_vars == <<ij_pc, ij_args, ij_clock, ij_track_detected, ij_pushed_request_id, ij_polls, ij_commands>>

vars ==
    <<album_art_vars, validator_vars, ranking_vars,
      scoring_vars, lookup_vars, main_vars,
      inject_vars>>

\* what the actions of one component leave alone
outside_album_art ==
    <<validator_vars, ranking_vars, scoring_vars,
      lookup_vars, main_vars, inject_vars>>
outside_validators ==
    <<album_art_vars, ranking_vars, scoring_vars,
      lookup_vars, main_vars, inject_vars>>
outside_ranking ==
    <<album_art_vars, validator_vars, scoring_vars,
      lookup_vars, main_vars, inject_vars>>
outside_scoring ==
    <<album_art_vars, validator_vars, ranking_vars,
      lookup_vars, main_vars, inject_vars>>
outside_lookup ==
    <<album_art_vars, validator_vars, ranking_vars,
      scoring_vars, main_vars, inject_vars>>
outside_main ==
    <<album_art_vars, validator_vars, ranking_vars,
      scoring_vars, lookup_vars, inject_vars>>
outside_inject ==
    <<album_art_vars, validator_vars, ranking_vars,
      scoring_vars, lookup_vars, main_vars>>

NoLegacy ==
    [searched |-> FALSE, releases |-> <<>>, exact_matches |-> <<>>, next |-> 1,
     skip_release_ids |-> {}, attempted_ids |-> <<>>]

NoInfo == [reason |-> "", attempted_release_ids |-> <<>>]

\* the decorated functions of validators.py
Decorated ==
    {"verified", "spotify_ok", "mb_ok", "itunes_ok",
     "verified_album", "spotify_album_ok", "mb_album_ok", "itunes_album_ok"}

NoCall == [fn |-> "", args |-> <<>>, cached |-> FALSE]

\* no verification has been asked for
ValidatorsIdle ==
    /\ lru = [f \in Decorated |-> <<>>]
    /\ vpc = "idle"
    /\ vcall = NoCall
    /\ consulted = <<>>
    /\ vresult = FALSE
    /\ vcalls = 0
    /\ vhistory = {}

\* the ranking stage is not run on its own
RankingOff ==
    /\ rank_pc = "off"
    /\ rank_entries = <<>>
    /\ rank_details = <<>>
    /\ rank_pool = <<>>
    /\ rank_out = <<>>

\* a candidate: the hit of the release search, the full record, and how the
\* provider spells the flags of cover-art-archive
Candidate(hit, detail, yes, no) == [hit |-> hit, detail |-> detail, yes |-> yes, no |-> no]

NoBase == Candidate(Hit("", "", "", NoGroup, <<>>), WeakDetail("", ""), "True", "False")

\* the scoring functions are not run on their own
ScoringOff ==
    /\ score_pc = "off"
    /\ score_base = NoBase
    /\ score_table = {}

\* backfill_album_names is not run
LookupOff ==
    /\ lk_pc = "off"
    /\ lk_args = [prefer_spotify |-> TRUE, min_confidence |-> 5000, dry_run |-> FALSE]
    /\ lk_world = [spotify |-> <<>>, musicbrainz |-> <<>>]
    /\ lk_file = <<>>
    /\ lk_rows = <<>>
    /\ lk_next = 1
    /\ lk_updates = 0
    /\ lk_failures = <<>>
    /\ lk_guesses = <<>>

\* main is not run
MainOff ==
    /\ mn_pc = "off"
    /\ mn_dry_run = FALSE
    /\ mn_playlist = <<>>
    /\ mn_songs = <<>>
    /\ mn_disk = {}
    /\ mn_files = {}
    /\ mn_next = 1
    /\ mn_newly_validated = <<>>
    /\ mn_invalid_songs = <<>>
    /\ mn_remove = <<>>
    /\ mn_validation_updates = FALSE
    /\ mn_invalid_albums = <<>>
    /\ mn_valid_songs = <<>>
    /\ mn_saved = <<>>
    /\ mn_verdicts = <<>>
    /\ mn_downloads = <<>>

\* wait_for_track_and_inject is not called
InjectOff ==
    /\ ij_pc = "off"
    /\ ij_args = [station_id |-> "None", lead_seconds |-> 0, timeout_seconds |-> 0]
    /\ ij_clock = 0
    /\ ij_track_detected = FALSE
    /\ ij_pushed_request_id = "None"
    /\ ij_polls = <<>>
    /\ ij_commands = <<>>

\* no resolution has been asked for
AlbumArtIdle ==
    /\ release_cache = <<>>
    /\ log_file = <<>>
    /\ pc = "idle"
    /\ calls = 0
    /\ candidates = <<>>
    /\ eligible_candidates = <<>>
    /\ next_candidate = 1
    /\ attempted_release_ids = <<>>
    /\ legacy = NoLegacy
    /\ legacy_info = NoInfo
    /\ outcome = "none"
    /\ returned = "none"
    /\ trace = <<>>
    /\ log_before = <<>>
    /\ log_write = "none"
    /\ results = {}
    /\ detail_calls = <<>>
    /\ past_calls = {}

Init ==
    /\ world \in Worlds
    /\ AlbumArtIdle
    /\ sp = TRUE
    /\ ValidatorsIdle
    /\ RankingOff
    /\ ScoringOff
    /\ LookupOff
    /\ MainOff
    /\ InjectOff

\* ------------------------------------------------------------------------
\* embed_from_artist_album
\* ------------------------------------------------------------------------
\* variant: when no candidate clears the floor, every candidate is walked
EligibleCandidatesAll(cands) ==
    LET cleared == SelectSeq(cands, LAMBDA c : c.final_score >= ConfidenceFloor * 100)
    IN  IF cleared = <<>> THEN cands ELSE cleared

\* lines 609-613: the candidates the primary phase walks
EligibleCandidates(cands) ==
    LET cleared == SelectSeq(cands, LAMBDA c : c.final_score >= ConfidenceFloor * 100)
    IN  IF cleared = <<>> /\ cands # <<>> THEN Prefix(cands, TopRegardless) ELSE cleared

\* embed_from_release_id: True only when the artwork was downloaded and
\* embedded; a download error or any other exception gives False
AttemptResults == {"embedded", "download_error", "embed_error"}

EmbedFromReleaseId(result) == result = "embedded"

\* variant: a successful attempt does not end the loop
AfterAttemptKeepsGoing(ok, loop) == loop

\* variant: a failed attempt ends the resolution at once
AfterAttemptGivesUp(ok, loop) == IF ok THEN "returned" ELSE "log"

\* `if embed_from_release_id(...): return` (lines 646-647, 583-584 with
\* 656-657): where the call stands after an attempt made in loop
AfterAttempt(ok, loop) == IF ok THEN "returned" ELSE loop

\* lines 601-613: a call begins, collects and ranks its candidates
Collect ==
    /\ pc = "idle"
    /\ calls < MaxCalls
    /\ LET got == CollectReleaseCandidates(world, release_cache)
       IN  /\ release_cache' = got.cache
           /\ candidates' = got.candidates
           /\ detail_calls' = detail_calls \o got.calls
           /\ eligible_candidates' = EligibleCandidates(got.candidates)
           /\ pc' = IF got.raised THEN "raised" ELSE "primary"
           /\ outcome' = IF got.raised THEN "raised" ELSE "none"
    /\ calls' = calls + 1
    /\ next_candidate' = 1
    /\ attempted_release_ids' = <<>>
    /\ legacy' = NoLegacy
    /\ legacy_info' = NoInfo
    /\ returned' = "none"
    /\ trace' = <<>>
    /\ log_before' = log_file
    /\ log_write' = "none"
    /\ UNCHANGED past_calls
    /\ UNCHANGED outside_album_art
    /\ UNCHANGED <<world, log_file, results>>

\* lines 615-621: a candidate without an id, or with an id already tried
PrimarySkip ==
    /\ pc = "primary"
    /\ next_candidate <= Len(eligible_candidates)
    /\ LET release_id == eligible_candidates[next_candidate].release.id
       IN  release_id = "" \/ release_id \in Range(attempted_release_ids)
    /\ next_candidate' = next_candidate + 1
    /\ UNCHANGED <<detail_calls, past_calls>>
    /\ UNCHANGED outside_album_art
    /\ UNCHANGED <<world, release_cache, log_file, pc, calls, candidates, eligible_candidates,
                   attempted_release_ids, legacy, legacy_info, outcome, returned, trace,
                   log_before, log_write, results>>

\* lines 615-647: one attempt of the primary phase
PrimaryAttempt ==
    /\ pc = "primary"
    /\ next_candidate <= Len(eligible_candidates)
    /\ LET release_id == eligible_candidates[next_candidate].release.id
       IN  /\ release_id # ""
           /\ release_id \notin Range(attempted_release_ids)
           /\ attempted_release_ids' = Append(attempted_release_ids, release_id)
           /\ \E result \in AttemptResults :
                LET ok == EmbedFromReleaseId(result)
                IN  /\ trace' = Append(trace, [id |-> release_id, ok |-> ok, phase |-> "primary",
                                                pos |-> next_candidate])
                    /\ pc' = AfterAttempt(ok, "primary")
                    /\ outcome' = IF AfterAttempt(ok, "loop") = "returned" THEN "success" ELSE outcome
                    /\ returned' = IF AfterAttempt(ok, "loop") = "returned" THEN "None" ELSE returned
    /\ next_candidate' = next_candidate + 1
    /\ UNCHANGED <<detail_calls, past_calls>>
    /\ UNCHANGED outside_album_art
    /\ UNCHANGED <<world, release_cache, log_file, calls, candidates, eligible_candidates,
                   legacy, legacy_info, log_before, log_write, results>>

\* ------------------------------------------------------------------------
\* _legacy_exact_match_attempt
\* ------------------------------------------------------------------------
\* variant: the titles are compared as they are
ExactMatchesCaseSensitive(releases) ==
    SelectSeq(releases, LAMBDA r : r.title = Album)

\* lines 546-550: the releases whose title equals the album, ignoring case
ExactMatches(releases) ==
    SelectSeq(releases, LAMBDA r : StripLower(r.title) = StripLower(Album))

\* variant: the date comes first in the key
LegacySortKeyDateFirst(entry) ==
    [k1 |-> ParseReleaseDate(entry.date),
     k2 |-> IF entry.status = "Official" /\ entry.rg.present /\ entry.rg.ptype = "Album"
            THEN 0 ELSE 1,
     v |-> entry]

\* lines 559-565: (0 for an official album else 1, parsed date)
LegacySortKey(entry) ==
    [k1 |-> IF entry.status = "Official" /\ entry.rg.present /\ entry.rg.ptype = "Album"
            THEN 0 ELSE 1,
     k2 |-> ParseReleaseDate(entry.date),
     v |-> entry]

\* line 567
SortExactMatches(matches) ==
    Values(StableSort([i \in DOMAIN matches |-> LegacySortKey(matches[i])]))

\* the reason the legacy fallback gives when its search raised
LegacyErrorReason(kind) ==
    IF kind = "wse" THEN "musicbrainz_error" ELSE "unexpected_error"

\* the ids of a list of releases, without the missing ones (line 587)
IdsOf(releases) ==
    LET with_id == SelectSeq(releases, LAMBDA r : r.id # "")
    IN  [i \in DOMAIN with_id |-> with_id[i].id]

\* lines 649-655 and 531-572: the primary loop is over, the legacy fallback
\* searches and either gives up at once or starts its own loop
LegacySearch ==
    /\ pc = "primary"
    /\ next_candidate > Len(eligible_candidates)
    /\ LET response == world.legacy
           releases == response.list
           matches == SortExactMatches(ExactMatches(releases))
           started == [searched |-> TRUE, releases |-> releases, exact_matches |-> <<>>,
                       next |-> 1, skip_release_ids |-> Range(attempted_release_ids),
                       attempted_ids |-> <<>>]
       IN  IF response.kind # "ok"
           THEN /\ legacy' = [started EXCEPT !.releases = <<>>]
                /\ legacy_info' = [NoInfo EXCEPT !.reason = LegacyErrorReason(response.kind)]
                /\ pc' = "log"
           ELSE IF releases = <<>>
           THEN /\ legacy' = started
                /\ legacy_info' = [NoInfo EXCEPT !.reason = "no_releases"]
                /\ pc' = "log"
           ELSE IF matches = <<>>
           THEN /\ legacy' = started
                /\ legacy_info' = [NoInfo EXCEPT !.reason = "no_exact_case_insensitive_match"]
                /\ pc' = "log"
           ELSE /\ legacy' = [started EXCEPT !.exact_matches = matches]
                /\ legacy_info' = NoInfo
                /\ pc' = "legacy"
    /\ UNCHANGED <<detail_calls, past_calls>>
    /\ UNCHANGED outside_album_art
    /\ UNCHANGED <<world, release_cache, log_file, calls, candidates, eligible_candidates,
                   next_candidate, attempted_release_ids, outcome, returned, trace,
                   log_before, log_write, results>>

\* which exact matches the legacy loop passes over (line 577)
LegacySkips(release_id, skip_release_ids) ==
    release_id = "" \/ release_id \in skip_release_ids

\* lines 575-578: an exact match without an id, or with a skipped id
LegacySkip ==
    /\ pc = "legacy"
    /\ legacy.next <= Len(legacy.exact_matches)
    /\ LegacySkips(legacy.exact_matches[legacy.next].id, legacy.skip_release_ids)
    /\ legacy' = [legacy EXCEPT !.next = @ + 1]
    /\ UNCHANGED <<detail_calls, past_calls>>
    /\ UNCHANGED outside_album_art
    /\ UNCHANGED <<world, release_cache, log_file, pc, calls, candidates, eligible_candidates,
                   next_candidate, attempted_release_ids, legacy_info, outcome, returned,
                   trace, log_before, log_write, results>>

\* lines 575-584 and 656-657: one attempt of the legacy loop
LegacyAttempt ==
    /\ pc = "legacy"
    /\ legacy.next <= Len(legacy.exact_matches)
    /\ LET release_id == legacy.exact_matches[legacy.next].id
       IN  /\ ~LegacySkips(release_id, legacy.skip_release_ids)
           /\ legacy' = [legacy EXCEPT !.next = @ + 1,
                                       !.attempted_ids = Append(@, release_id)]
           /\ attempted_release_ids' = Append(attempted_release_ids, release_id)
           /\ \E result \in AttemptResults :
                LET ok == EmbedFromReleaseId(result)
                IN  /\ trace' = Append(trace, [id |-> release_id, ok |-> ok, phase |-> "legacy",
                                                pos |-> legacy.next])
                    /\ pc' = AfterAttempt(ok, "legacy")
                    /\ outcome' = IF AfterAttempt(ok, "loop") = "returned" THEN "success" ELSE outcome
                    /\ returned' = IF AfterAttempt(ok, "loop") = "returned" THEN "None" ELSE returned
    /\ UNCHANGED <<detail_calls, past_calls>>
    /\ UNCHANGED outside_album_art
    /\ UNCHANGED <<world, release_cache, log_file, calls, candidates, eligible_candidates,
                   next_candidate, legacy_info, log_before, log_write, results>>

\* lines 586-592: every exact match was tried or skipped
LegacyExhausted ==
    /\ pc = "legacy"
    /\ legacy.next > Len(legacy.exact_matches)
    /\ LET attempted_ids == IF legacy.attempted_ids = <<>>
                            THEN IdsOf(legacy.exact_matches)
                            ELSE legacy.attempted_ids
       IN  legacy_info' = [reason |-> "no_cover_art_found_for_exact_title",
                           attempted_release_ids |-> attempted_ids]
    /\ pc' = "log"
    /\ UNCHANGED <<detail_calls, past_calls>>
    /\ UNCHANGED outside_album_art
    /\ UNCHANGED <<world, release_cache, log_file, calls, candidates, eligible_candidates,
                   next_candidate, attempted_release_ids, legacy, outcome, returned, trace,
                   log_before, log_write, results>>

\* ------------------------------------------------------------------------
\* Failure logging
\* ------------------------------------------------------------------------
\* dict.get(key) on the metadata: None when never set
MetaGet(meta, key) == IF meta[key] = Unset THEN "" ELSE meta[key]

\* lines 663-680
CandidateRankings(cands) ==
    LET top == Prefix(cands, MaxRankingsLogged)
    IN  [i \in DOMAIN top |->
           [release_id |-> top[i].release.id,
            title |-> top[i].release.title,
            final_score |-> top[i].final_score,
            base_score |-> top[i].base_score,
            primary_date |-> top[i].primary_date,
            sources |-> top[i].sources,
            status |-> IF top[i].status # "" THEN top[i].status
                       ELSE MetaGet(top[i].meta, "status_hint"),
            release_group_id |-> MetaGet(top[i].meta, "release_group_id"),
            release_group_title |-> MetaGet(top[i].meta, "release_group_title"),
            disambiguation_hint |-> MetaGet(top[i].meta, "disambiguation_hint")]]

\* variant: the reason of the legacy fallback is not taken over
FailureReasonDefault(info) == "no_suitable_cover_art"

\* lines 659-661
FailureReason(info) ==
    IF info.reason # "" THEN info.reason ELSE "no_suitable_cover_art"

\* variant: the entry lists the ids the legacy fallback reports
LogEntryLegacyIds(info, attempted, cands) ==
    [input |-> [artist |-> Artist, album |-> Album],
     reason |-> FailureReason(info),
     attempted_release_ids |-> info.attempted_release_ids,
     candidate_rankings |-> CandidateRankings(cands),
     legacy_fallback |-> info]

\* lines 682-691 (the timestamp is left out)
LogEntry(info, attempted, cands) ==
    [input |-> [artist |-> Artist, album |-> Album],
     reason |-> FailureReason(info),
     attempted_release_ids |-> attempted,
     candidate_rankings |-> CandidateRankings(cands),
     legacy_fallback |-> info]

\* _log_skip: the file after the call.  write is what the file system does:
\*   "ok"          the line is appended, flushed and synced
\*   "open_error"  makedirs or open raises: nothing is written
\*   "sync_error"  the line reached the file, then fsync raises
\* Either exception is caught inside _log_skip.
LogWrites == {"ok", "open_error", "sync_error"}

\* variant: the file is opened for writing, not for appending
LogSkipTruncates(file, entry, write) ==
    IF write = "open_error" THEN file ELSE <<entry>>

LogSkip(file, entry, write) ==
    IF write = "open_error" THEN file ELSE Append(file, entry)

\* variant: the exception of a failed write leaves _log_skip
LogSkipPropagates(write) == write # "ok"

\* lines 34-35: `except Exception` catches whatever makedirs, open, write,
\* flush or fsync raise, so no write outcome makes _log_skip raise
LogSkipRaises(write) == FALSE

\* lines 659-694: all strategies failed; log and return
LogFailure ==
    /\ pc = "log"
    /\ \E write \in LogWrites :
          /\ log_file' = LogSkip(log_file,
                                 LogEntry(legacy_info, attempted_release_ids, candidates), write)
          /\ log_write' = write
          /\ pc' = IF LogSkipRaises(write) THEN "raised" ELSE "returned"
          /\ outcome' = IF LogSkipRaises(write) THEN "raised" ELSE "exhausted"
          /\ returned' = IF LogSkipRaises(write) THEN "none" ELSE "None"
    /\ UNCHANGED <<detail_calls, past_calls>>
    /\ UNCHANGED outside_album_art
    /\ UNCHANGED <<world, release_cache, calls, candidates, eligible_candidates,
                   next_candidate, attempted_release_ids, legacy, legacy_info, trace,
                   log_before, results>>

\* what the current call did: how it ended, the attempts it made, the
\* reason it logged and the ranking it worked from
Summary ==
    [outcome |-> outcome,
     attempts |-> [i \in DOMAIN trace |-> [id |-> trace[i].id, ok |-> trace[i].ok]],
     reason |-> IF outcome = "exhausted" THEN FailureReason(legacy_info) ELSE "",
     ranking |-> [i \in DOMAIN candidates |-> candidates[i].release.id]]

\* the caller has the result (or the exception); the locals are gone
Return ==
    /\ pc \in {"returned", "raised"}
    /\ pc' = "idle"
    /\ results' = results \cup {[outcome |-> outcome, returned |-> returned]}
    /\ past_calls' = past_calls \cup {Summary}
    /\ candidates' = <<>>
    /\ eligible_candidates' = <<>>
    /\ next_candidate' = 1
    /\ attempted_release_ids' = <<>>
    /\ legacy' = NoLegacy
    /\ legacy_info' = NoInfo
    /\ outcome' = "none"
    /\ returned' = "none"
    /\ trace' = <<>>
    /\ log_before' = log_file
    /\ log_write' = "none"
    /\ UNCHANGED detail_calls
    /\ UNCHANGED outside_album_art
    /\ UNCHANGED <<world, release_cache, log_file, calls>>

Next ==
    \/ Collect
    \/ PrimarySkip
    \/ PrimaryAttempt
    \/ LegacySearch
    \/ LegacySkip
    \/ LegacyAttempt
    \/ LegacyExhausted
    \/ LogFailure
    \/ Return

Spec == Init /\ [][Next]_vars

\* ------------------------------------------------------------------------
\* validators.py: verified and verified_album
\*
\* A call is walked one provider function at a time.  What a provider
\* answers to a query is chosen when the query is issued:
\*   "hit_close"  a first hit whose names are close to the query
\*   "hit_far"    a first hit whose names are not close to it
\*   "no_hit"     no result
\*   "error"      the request raises
\* verified_album is modelled as main.py calls it, with verbose left False.
\* ------------------------------------------------------------------------
Providers == <<"spotify", "musicbrainz", "itunes">>

Answers == {"hit_close", "hit_far", "no_hit", "error"}

\* _norm: (value or "").strip()
Norm(value) ==
    CASE value = " a" -> "a"
      [] value = " " -> ""
      [] OTHER -> value

NormArgs(args) == [i \in DOMAIN args |-> Norm(args[i])]

\* `if not artist or not title [or not album]`
SomeFieldEmpty(args) == \E i \in DOMAIN args : Norm(args[i]) = ""

\* the arguments the callers pass
SongQueries == {<<"a", "t">>, <<" a", "t">>, <<"b", "t">>, <<" ", "t">>}
AlbumQueries == {<<"a", "t", "al">>, <<"a", "t", " ">>}

\* the provider function verified / verified_album calls for a provider
ProviderFunction(fn, provider) ==
    CASE provider = "spotify" -> IF fn = "verified" THEN "spotify_ok" ELSE "spotify_album_ok"
      [] provider = "musicbrainz" -> IF fn = "verified" THEN "mb_ok" ELSE "mb_album_ok"
      [] OTHER -> IF fn = "verified" THEN "itunes_ok" ELSE "itunes_album_ok"

\* what each provider function makes of the answer: spotify_ok, mb_ok and
\* mb_album_ok only count the hits, the others compare names with
\* _close_enough; an error gives False in all of them
Confirms(f, answer) ==
    IF f \in {"spotify_ok", "mb_ok", "mb_album_ok"}
    THEN answer \in {"hit_close", "hit_far"}
    ELSE answer = "hit_close"

\* functools.lru_cache: a cache is a sequence of [key, value], the least
\* recently used entry first
LruHas(cache, key) == \E i \in DOMAIN cache : cache[i].key = key

LruValue(cache, key) == (CHOOSE i \in DOMAIN cache : cache[i].key = key)

LruTouch(cache, key) ==
    LET i == LruValue(cache, key)
    IN  Append(SelectSeq(cache, LAMBDA e : e.key # key), cache[i])

LruPut(cache, key, value, maxsize) ==
    LET added == Append(cache, [key |-> key, value |-> value])
    IN  IF Len(added) > maxsize THEN Tail(added) ELSE added

MaxSize(f) == IF f \in {"verified", "verified_album"} THEN VerifiedMaxSize ELSE ProviderMaxSize

\* where the call goes after a provider function has returned: the `or`
\* chain of verified (line 131) stops at the first True, the three
\* assignments of verified_album (lines 222-224) are all executed
AfterProvider(fn, provider, confirmed) ==
    CASE fn = "verified" /\ confirmed -> "returned"
      [] provider = "spotify" -> "musicbrainz"
      [] provider = "musicbrainz" -> "itunes"
      [] OTHER -> "returned"

\* variant: only the last provider's word counts
ResultOfLast(entries) == entries[Len(entries)].confirmed

\* `spotify or mb or itunes` over the provider functions that were run
ResultOf(entries) == \E i \in DOMAIN entries : entries[i].confirmed

\* the call of a decorated top-level function: served from its cache, or
\* answered False at once for an empty field, or sent to the providers
Begin(fn, args) ==
    /\ vpc = "idle"
    /\ vcalls < MaxVCalls
    /\ vcalls' = vcalls + 1
    /\ consulted' = <<>>
    /\ IF LruHas(lru[fn], args)
       THEN /\ vcall' = [fn |-> fn, args |-> args, cached |-> TRUE]
            /\ vresult' = lru[fn][LruValue(lru[fn], args)].value
            /\ lru' = [lru EXCEPT ![fn] = LruTouch(@, args)]
            /\ vpc' = "returned"
       ELSE /\ vcall' = [fn |-> fn, args |-> args, cached |-> FALSE]
            /\ IF SomeFieldEmpty(args)
               THEN /\ vresult' = FALSE
                    /\ lru' = [lru EXCEPT ![fn] = LruPut(@, args, FALSE, MaxSize(fn))]
                    /\ vpc' = "returned"
               ELSE /\ vpc' = "spotify"
                    /\ UNCHANGED <<vresult, lru>>
    /\ UNCHANGED <<sp, vhistory>>
    /\ UNCHANGED outside_validators

\* verified(artist, title)
Verified == \E args \in SongQueries : Begin("verified", args)

\* verified_album(artist, title, album)
VerifiedAlbum == \E args \in AlbumQueries : Begin("verified_album", args)

\* one provider function runs: its own cache answers, or Spotify has no
\* client, or the provider is queried
Consult(provider) ==
    /\ vpc = provider
    /\ LET f == ProviderFunction(vcall.fn, provider)
           key == NormArgs(vcall.args)
       IN  \E answer \in Answers \cup {"cached", "no_client"} :
             /\ answer = "cached" <=> LruHas(lru[f], key)
             /\ answer = "no_client" <=> (~LruHas(lru[f], key) /\ provider = "spotify" /\ ~sp)
             /\ LET confirmed == CASE answer = "cached" -> lru[f][LruValue(lru[f], key)].value
                                   [] answer = "no_client" -> FALSE
                                   [] OTHER -> Confirms(f, answer)
                    entries == Append(consulted,
                                      [provider |-> provider, asked |-> answer \in Answers,
                                       answer |-> answer, confirmed |-> confirmed])
                    own == IF answer = "cached" THEN LruTouch(lru[f], key)
                           ELSE LruPut(lru[f], key, confirmed, MaxSize(f))
                    after == AfterProvider(vcall.fn, provider, confirmed)
                IN  /\ consulted' = entries
                    /\ vpc' = after
                    /\ IF after = "returned"
                       THEN /\ vresult' = ResultOf(entries)
                            /\ lru' = [lru EXCEPT ![f] = own,
                                                  ![vcall.fn] = LruPut(@, vcall.args,
                                                                       ResultOf(entries),
                                                                       MaxSize(vcall.fn))]
                       ELSE /\ lru' = [lru EXCEPT ![f] = own]
                            /\ UNCHANGED vresult
    /\ UNCHANGED <<sp, vcall, vcalls, vhistory>>
    /\ UNCHANGED outside_validators

ConsultSpotify == Consult("spotify")

ConsultMusicBrainz == Consult("musicbrainz")

ConsultITunes == Consult("itunes")

\* the caller has the value
VerifyReturn ==
    /\ vpc = "returned"
    /\ vpc' = "idle"
    /\ vhistory' = vhistory \cup {[fn |-> vcall.fn, args |-> vcall.args, value |-> vresult]}
    /\ vcall' = NoCall
    /\ consulted' = <<>>
    /\ vresult' = FALSE
    /\ UNCHANGED <<sp, lru, vcalls>>
    /\ UNCHANGED outside_validators

\* the process only verifies; Spotify credentials are present or not
VerifyInit ==
    /\ world = World(Ok(<<>>), Ok(<<>>), UnfetchedDetail, Ok(<<>>))
    /\ AlbumArtIdle
    /\ sp \in BOOLEAN
    /\ ValidatorsIdle
    /\ RankingOff
    /\ ScoringOff
    /\ LookupOff
    /\ MainOff
    /\ InjectOff

VerifyNext ==
    \/ Verified
    \/ VerifiedAlbum
    \/ ConsultSpotify
    \/ ConsultMusicBrainz
    \/ ConsultITunes
    \/ VerifyReturn

VerifySpec == VerifyInit /\ [][VerifyNext]_vars

\* ------------------------------------------------------------------------
\* The ranking stage of _collect_release_candidates (lines 397-431) run on
\* its own, on preliminary scores longer than the two cut-offs.  The scores
\* and the full records follow a few patterns along the insertion order.
\* ------------------------------------------------------------------------
RankIds ==
    <<"m01", "m02", "m03", "m04", "m05", "m06", "m07", "m08", "m09", "m10", "m11",
      "m12", "m13", "m14", "m15", "m16", "m17", "m18", "m19", "m20", "m21", "m22",
      "m23", "m24", "m25", "m26", "m27", "m28", "m29", "m30", "m31", "m32">>

ScorePatterns == {"flat", "rising", "falling", "pairs"}

PatternScore(p, i) ==
    CASE p = "flat" -> 5000
      [] p = "rising" -> 5000 + i * 125
      [] p = "falling" -> 9000 - i * 125
      [] OTHER -> 5000 + (i \div 2) * 150

DetailPatterns == {"dated", "mixed", "holes", "weak"}

PatternDetail(p, i) ==
    LET id == RankIds[i]
        Dated(date) == Detail("ok", [StrongDetail(id) EXCEPT !.date = date])
    IN  CASE p = "dated" -> Dated(<<1990 + (i % 5)>>)
          [] p = "mixed" -> Dated(CASE i % 4 = 0 -> <<>>
                                    [] i % 4 = 1 -> <<2000, 10, 2>>
                                    [] i % 4 = 2 -> <<1999>>
                                    [] OTHER -> <<2000, 13>>)
          [] p = "holes" -> (CASE i % 4 = 0 -> Detail("wse", WeakDetail("", ""))
                               [] i % 4 = 2 -> Detail("empty", WeakDetail("", ""))
                               [] OTHER -> Dated(<<2000 - (i % 5)>>))
          [] OTHER -> IF i % 2 = 0 THEN Dated(<<2000, 10, 2>>)
                      ELSE Detail("ok", WeakDetail(id, ""))

RankEntries(n, p) ==
    [i \in 1..n |-> [id |-> RankIds[i], score |-> PatternScore(p, i), meta |-> EmptyMeta,
                     sources |-> {"release-search"}]]

RankDetails(n, p) == [id \in {RankIds[i] : i \in 1..n} |-> 
                        PatternDetail(p, CHOOSE i \in 1..n : RankIds[i] = id)]

\* lines 397-422 on given preliminary scores: the candidates before the sort
ScoredPool(entries, details) ==
    ScoreShortlist(Shortlist(entries), 1, details, <<>>, NothingScored,
                   <<NormalizeString(Artist), NormalizeString(Album)>>).candidates

RankInit ==
    /\ world = World(Ok(<<>>), Ok(<<>>), UnfetchedDetail, Ok(<<>>))
    /\ AlbumArtIdle
    /\ sp = TRUE
    /\ ValidatorsIdle
    /\ rank_pc = "input"
    /\ \E n \in 0..MaxEntries, p \in ScorePatterns, d \in DetailPatterns :
          /\ rank_entries = RankEntries(n, p)
          /\ rank_details = RankDetails(n, d)
    /\ rank_pool = <<>>
    /\ rank_out = <<>>
    /\ ScoringOff
    /\ LookupOff
    /\ MainOff
    /\ InjectOff

\* lines 397-422: shortlist, fetch the full records, score
ScoreStage ==
    /\ rank_pc = "input"
    /\ rank_pool' = ScoredPool(rank_entries, rank_details)
    /\ rank_pc' = "scored"
    /\ UNCHANGED <<rank_entries, rank_details, rank_out>>
    /\ UNCHANGED outside_ranking

\* lines 424-431: sort and cut
RankStage ==
    /\ rank_pc = "scored"
    /\ rank_out' = RankCandidates(rank_pool)
    /\ rank_pc' = "ranked"
    /\ UNCHANGED <<rank_entries, rank_details, rank_pool>>
    /\ UNCHANGED outside_ranking

RankNext ==
    \/ ScoreStage
    \/ RankStage

RankSpec == RankInit /\ [][RankNext]_vars

\* ------------------------------------------------------------------------
\* _score_release_search_entry and _score_release on one candidate and on
\* variants of it that differ in one hint
\* ------------------------------------------------------------------------
LiveGroup == [AlbumGroup EXCEPT !.secondary = {"Live"}]

ScoreBases ==
    {Candidate(Hit("r1", "Kid A", status, rg, <<2000>>),
               [detail EXCEPT !.status = status], flags[1], flags[2]) :
        status \in {"", "Bootleg"},
        rg \in {AlbumGroup, LiveGroup, NoGroup},
        detail \in {StrongDetail("r1"), WeakDetail("r1", "Kid A")},
        flags \in {<<"True", "False">>, <<"'true'", "'false'">>}}

\* what cover-art-archive can say
CoverKinds == {"front", "artwork", "none_reported", "unknown"}

\* cover-art-archive of each kind: a front cover, artwork without a front
\* cover, an entry that reports neither, and no entry at all
CoverOf(kind, yes, no) ==
    CASE kind = "front" -> [present |-> TRUE, front |-> yes, artwork |-> yes]
      [] kind = "artwork" -> [present |-> TRUE, front |-> no, artwork |-> yes]
      [] kind = "none_reported" -> [present |-> TRUE, front |-> no, artwork |-> no]
      [] kind = "unknown" -> NoCover

\* a variant changes the status and one secondary type, or the cover
Plain == [official |-> FALSE, secondary |-> "", cover |-> "asfound"]

Variants ==
    {v \in [official : BOOLEAN, secondary : {""} \cup BlockedSecondaryGroup,
            cover : {"asfound"} \cup CoverKinds] :
        v.cover = "asfound" \/ (~v.official /\ v.secondary = "")}

\* the search hit of the variant
VariantHit(base, v) ==
    [base.hit EXCEPT
        !.status = IF v.official THEN "Official" ELSE @,
        !.rg = IF v.secondary = "" THEN @
               ELSE [@ EXCEPT !.present = TRUE, !.secondary = @ \cup {v.secondary}]]

\* the full record of the variant; it has no secondary types that
\* _score_release reads
VariantDetail(base, v) ==
    [base.detail EXCEPT
        !.status = IF v.official THEN "Official" ELSE @,
        !.cover = IF v.cover = "asfound" THEN @ ELSE CoverOf(v.cover, base.yes, base.no)]

Scores(base, v) ==
    [variant |-> v,
     entry |-> ScoreReleaseSearchEntry(VariantHit(base, v),
                                       NormalizeString(Artist), NormalizeString(Album)),
     release |-> ScoreRelease(VariantDetail(base, v),
                              NormalizeString(Artist), NormalizeString(Album))]

ScoreInit ==
    /\ world = World(Ok(<<>>), Ok(<<>>), UnfetchedDetail, Ok(<<>>))
    /\ AlbumArtIdle
    /\ sp = TRUE
    /\ ValidatorsIdle
    /\ RankingOff
    /\ LookupOff
    /\ score_pc = "scoring"
    /\ score_base \in ScoreBases
    /\ score_table = {}
    /\ MainOff
    /\ InjectOff

\* the candidate as the provider gave it
ScoreCandidate ==
    /\ score_pc = "scoring"
    /\ score_table = {}
    /\ score_table' = {Scores(score_base, Plain)}
    /\ UNCHANGED <<score_pc, score_base>>
    /\ UNCHANGED outside_scoring

\* a variant of it
ScoreVariant ==
    /\ score_pc = "scoring"
    /\ score_table # {}
    /\ Cardinality(score_table) < MaxScored
    /\ \E v \in Variants \ {e.variant : e \in score_table} :
          score_table' = score_table \cup {Scores(score_base, v)}
    /\ UNCHANGED <<score_pc, score_base>>
    /\ UNCHANGED outside_scoring

ScoreNext ==
    \/ ScoreCandidate
    \/ ScoreVariant

ScoreSpec == ScoreInit /\ [][ScoreNext]_vars

\* ------------------------------------------------------------------------
\* album_lookup.py: guess_album, and tools/backfill_album_names.py
\* Confidences are in ten-thousandths, title and artist similarity in
\* percent. A track or recording is given by what the code derives from it:
\*   track     : [album, album_type, title_score, artist_score, artist_in,
\*                exact_title, track_is_live, album_is_live, is_reissue,
\*                popularity]
\*   recording : [album, primary_type, title_score, artist_score, ext_score,
\*                track_is_live, album_is_live]   (one release each)
\* No release carries a date. A match without a popularity has -1. The flag
\* "type" stands for "type:<album type>".
\* ------------------------------------------------------------------------
Clamp(x) == IF x < 0 THEN 0 ELSE IF x > 10000 THEN 10000 ELSE x

\* _album_type_rank
AlbumTypeRank(album_type) ==
    CASE album_type = "album" -> 0
      [] album_type = "single" -> 1
      [] album_type = "compilation" -> 2
      [] OTHER -> 3

Flag(cond, name) == IF cond THEN {name} ELSE {}

\* the AlbumMatch _spotify_candidates builds from a track (lines 295-366)
SpotifyMatch(item) ==
    LET penalty == 800 * AlbumTypeRank(item.album_type)
                   + (IF item.is_reissue THEN 1000 ELSE 0)
                   + (IF item.track_is_live THEN 3000 ELSE 0)
                   + (IF item.album_is_live THEN 2000 ELSE 0)
                   + (IF item.exact_title THEN 0 ELSE 500)
        bonus == IF item.exact_title THEN 500 ELSE 0
    IN  [album |-> item.album, source |-> "spotify",
         confidence |-> Clamp(70 * item.title_score + 30 * item.artist_score - penalty + bonus),
         album_type |-> item.album_type, popularity |-> item.popularity,
         flags |-> Flag(item.album_type # "" /\ item.album_type # "album", "type")
                   \cup Flag(item.is_reissue, "reissue")
                   \cup Flag(item.track_is_live, "live_track")
                   \cup Flag(item.album_is_live, "live_album")
                   \cup Flag(item.popularity < 10, "low_popularity")]

\* the tracks _spotify_candidates keeps (lines 286-306)
SpotifyKeeps(item) ==
    /\ item.title_score >= 60
    /\ item.artist_score >= 45 \/ item.artist_in

\* _spotify_candidates: the matches, sorted (lines 368-379)
SpotifyCandidates(items) ==
    LET kept == SelectSeq(items, SpotifyKeeps)
        Keyed(m) ==
            [k1 |-> AlbumTypeRank(m.album_type),
             k2 |-> ((100 - m.popularity) * 10001 + (10000 - m.confidence)) * 8
                    + (IF "reissue" \in m.flags THEN 4 ELSE 0)
                    + (IF "live_album" \in m.flags THEN 2 ELSE 0)
                    + (IF "live_track" \in m.flags THEN 1 ELSE 0),
             v |-> m]
    IN  Values(StableSort([i \in DOMAIN kept |-> Keyed(SpotifyMatch(kept[i]))]))

\* the AlbumMatch _musicbrainz_candidates builds (lines 426-464)
MusicBrainzMatch(item) ==
    LET base == Max2(Clamp(60 * item.title_score + 40 * item.artist_score),
                     item.ext_score * 100)
        penalty == (IF item.track_is_live THEN 2500 ELSE 0)
                   + (IF item.album_is_live THEN 2000 ELSE 0)
    IN  [album |-> item.album, source |-> "musicbrainz",
         confidence |-> Clamp(base - penalty),
         album_type |-> item.primary_type, popularity |-> -1,
         flags |-> Flag(item.primary_type # "" /\ item.primary_type # "album", "type")
                   \cup Flag(item.track_is_live, "live_track")
                   \cup Flag(item.album_is_live, "live_album")]

\* _musicbrainz_candidates: the matches, sorted (lines 466-474)
MusicBrainzCandidates(items) ==
    LET kept == SelectSeq(items, LAMBDA item : item.title_score >= 55)
        Keyed(m) ==
            [k1 |-> 10000 - m.confidence,
             k2 |-> (IF "live_album" \in m.flags THEN 2 ELSE 0)
                    + (IF "live_track" \in m.flags THEN 1 ELSE 0),
             v |-> m]
    IN  Values(StableSort([i \in DOMAIN kept |-> Keyed(MusicBrainzMatch(kept[i]))]))

\* album_candidates
AlbumCandidates(w, prefer_spotify) ==
    LET spotify_matches == SpotifyCandidates(w.spotify)
        musicbrainz_matches == MusicBrainzCandidates(w.musicbrainz)
    IN  IF prefer_spotify
        THEN IF spotify_matches # <<>> THEN spotify_matches ELSE musicbrainz_matches
        ELSE IF musicbrainz_matches # <<>> THEN musicbrainz_matches ELSE spotify_matches

IsLive(m) == "live_track" \in m.flags \/ "live_album" \in m.flags

\* is_official, is_album, is_single of _prefer_official; no source sets a
\* status flag
IsOfficial(m) == "status:official" \in m.flags

IsAlbum(m) == m.album_type = "album"

IsSingle(m) == m.album_type = "single"

\* _prefer_official
PreferOfficial(matches) ==
    LET not_live == SelectSeq(matches, LAMBDA m : ~IsLive(m))
        non_live == IF not_live # <<>> THEN not_live ELSE matches
        official_albums == SelectSeq(non_live, LAMBDA m : IsOfficial(m) /\ IsAlbum(m))
        album_matches == SelectSeq(non_live, IsAlbum)
        official_matches == SelectSeq(non_live, IsOfficial)
        non_single_matches == SelectSeq(non_live, LAMBDA m : ~IsSingle(m))
    IN  IF official_albums # <<>> THEN official_albums
        ELSE IF album_matches # <<>> THEN album_matches
        ELSE IF official_matches # <<>> THEN official_matches
        ELSE IF non_single_matches # <<>> THEN non_single_matches
        ELSE non_live

\* list.sort(key=sort_key) of guess_album
SortByKey(matches) ==
    LET Keyed(m) ==
            [k1 |-> AlbumTypeRank(m.album_type),
             k2 |-> (100 - m.popularity) * 10001 + (10000 - m.confidence),
             v |-> m]
    IN  Values(StableSort([i \in DOMAIN matches |-> Keyed(matches[i])]))

Confident(matches, min_confidence) ==
    SelectSeq(matches, LAMBDA m : m.confidence >= min_confidence)

NoMatch ==
    [album |-> "", source |-> "", confidence |-> 0, album_type |-> "", popularity |-> -1,
     flags |-> {}]

Found(m) == [found |-> TRUE, match |-> m]

NotFound == [found |-> FALSE, match |-> NoMatch]

\* line 593: return primary_matches[0]
LastResort(primary_matches) == Found(primary_matches[1])

\* variant: the fallback source is asked first
FirstChoiceFallback(confident, fallback_confident) ==
    IF fallback_confident # <<>> THEN SortByKey(PreferOfficial(fallback_confident))
    ELSE SortByKey(confident)

\* lines 574-592: the confident primary matches win over the fallback ones
FirstChoice(confident, fallback_confident) ==
    IF confident # <<>> THEN SortByKey(confident)
    ELSE SortByKey(PreferOfficial(fallback_confident))

\* guess_album
GuessAlbum(w, prefer_spotify, min_confidence, allow_fallback) ==
    LET candidates_found == AlbumCandidates(w, prefer_spotify)
        primary_matches == PreferOfficial(candidates_found)
        confident == Confident(primary_matches, min_confidence)
        fallback_matches ==
            IF ~allow_fallback \/ primary_matches = <<>> THEN <<>>
            ELSE IF primary_matches[1].source = "spotify"
                 THEN MusicBrainzCandidates(w.musicbrainz)
                 ELSE SpotifyCandidates(w.spotify)
        fallback_confident == Confident(fallback_matches, min_confidence)
        chosen == FirstChoice(confident, fallback_confident)
    IN  IF primary_matches = <<>> THEN NotFound
        ELSE IF chosen # <<>> THEN Found(chosen[1])
        ELSE LastResort(primary_matches)

\* the tracks and recordings of the runs
Track(album, album_type, title_score, artist_score, live, popularity) ==
    [album |-> album, album_type |-> album_type, title_score |-> title_score,
     artist_score |-> artist_score, artist_in |-> FALSE,
     exact_title |-> title_score = 100, track_is_live |-> live, album_is_live |-> live,
     is_reissue |-> FALSE, popularity |-> popularity]

Recording(album, primary_type, title_score, artist_score, live) ==
    [album |-> album, primary_type |-> primary_type, title_score |-> title_score,
     artist_score |-> artist_score, ext_score |-> 0, track_is_live |-> live,
     album_is_live |-> live]

SpotifyTracks ==
    <<Track("Pablo Honey", "album", 100, 100, FALSE, 80),
      Track("Creep", "single", 100, 100, FALSE, 90),
      Track("Live at the Astoria", "album", 100, 100, TRUE, 40),
      Track("Pablo Honey", "album", 62, 50, FALSE, 5),
      Track("Best Of", "compilation", 62, 40, FALSE, 30)>>

MusicBrainzRecordings ==
    <<Recording("Pablo Honey", "album", 100, 100, FALSE),
      Recording("Creep", "single", 100, 100, FALSE),
      Recording("Live at the Astoria", "album", 100, 100, TRUE),
      Recording("Pablo Honey", "album", 60, 50, FALSE)>>

\* the sublists of at most n entries of a list
RECURSIVE Sublists(_, _)
Sublists(list, n) ==
    IF list = <<>> \/ n = 0 THEN {<<>>}
    ELSE Sublists(Tail(list), n)
         \cup {<<Head(list)>> \o l : l \in Sublists(Tail(list), n - 1)}

LookupWorlds ==
    [spotify : Sublists(SpotifyTracks, MaxItems),
     musicbrainz : Sublists(MusicBrainzRecordings, MaxItems)]

\* playlist rows
Row(artist, title, album) == [artist |-> artist, title |-> title, album |-> album]

Playlists ==
    {<<Row("Radiohead", "Creep", "")>>,
     <<Row("Radiohead", "Creep", " "), Row("Radiohead", "Creep", "")>>,
     <<Row("Radiohead", "Creep", "The Bends"), Row("Radiohead", " ", "")>>,
     <<Row("", "Creep", ""), Row("Radiohead", "Creep", "Pablo Honey"),
       Row("Radiohead", "Creep", "")>>}

\* _normalize of backfill_album_names
Strip(value) == IF value = " " THEN "" ELSE value

LookupInit ==
    /\ world = World(Ok(<<>>), Ok(<<>>), UnfetchedDetail, Ok(<<>>))
    /\ AlbumArtIdle
    /\ sp = TRUE
    /\ ValidatorsIdle
    /\ RankingOff
    /\ ScoringOff
    /\ lk_pc = "rows"
    /\ lk_args \in [prefer_spotify : BOOLEAN, min_confidence : {5000, 7000},
                    dry_run : BOOLEAN]
    /\ lk_world \in LookupWorlds
    /\ lk_file \in Playlists
    /\ lk_rows = lk_file
    /\ lk_next = 1
    /\ lk_updates = 0
    /\ lk_failures = <<>>
    /\ lk_guesses = <<>>
    /\ MainOff
    /\ InjectOff

\* the row is left alone: no artist, no title, or an album already
RowSkipped(row) ==
    Strip(row.artist) = "" \/ Strip(row.title) = "" \/ Strip(row.album) # ""

BackfillSkip ==
    /\ lk_pc = "rows"
    /\ lk_next \in DOMAIN lk_rows
    /\ RowSkipped(lk_rows[lk_next])
    /\ lk_next' = lk_next + 1
    /\ UNCHANGED <<lk_pc, lk_args, lk_world, lk_file, lk_rows, lk_updates, lk_failures,
                   lk_guesses>>
    /\ UNCHANGED outside_lookup

\* guess_album for the row, allow_fallback=True
RowGuess == GuessAlbum(lk_world, lk_args.prefer_spotify, lk_args.min_confidence, TRUE)

BackfillFill ==
    /\ lk_pc = "rows"
    /\ lk_next \in DOMAIN lk_rows
    /\ ~RowSkipped(lk_rows[lk_next])
    /\ RowGuess.found
    /\ lk_rows' = [lk_rows EXCEPT ![lk_next].album = RowGuess.match.album]
    /\ lk_updates' = lk_updates + 1
    /\ lk_guesses' = Append(lk_guesses, [row |-> lk_next, guess |-> RowGuess])
    /\ lk_next' = lk_next + 1
    /\ UNCHANGED <<lk_pc, lk_args, lk_world, lk_file, lk_failures>>
    /\ UNCHANGED outside_lookup

BackfillNoMatch ==
    /\ lk_pc = "rows"
    /\ lk_next \in DOMAIN lk_rows
    /\ ~RowSkipped(lk_rows[lk_next])
    /\ ~RowGuess.found
    /\ lk_failures' = Append(lk_failures, <<Strip(lk_rows[lk_next].artist),
                                            Strip(lk_rows[lk_next].title)>>)
    /\ lk_guesses' = Append(lk_guesses, [row |-> lk_next, guess |-> RowGuess])
    /\ lk_next' = lk_next + 1
    /\ UNCHANGED <<lk_pc, lk_args, lk_world, lk_file, lk_rows, lk_updates>>
    /\ UNCHANGED outside_lookup

\* lines 99-107: the playlist is written back
BackfillWrite ==
    /\ lk_pc = "rows"
    /\ lk_next > Len(lk_rows)
    /\ lk_updates > 0 /\ ~lk_args.dry_run
    /\ lk_file' = lk_rows
    /\ lk_pc' = "done"
    /\ UNCHANGED <<lk_args, lk_world, lk_rows, lk_next, lk_updates, lk_failures, lk_guesses>>
    /\ UNCHANGED outside_lookup

BackfillReturn ==
    /\ lk_pc = "rows"
    /\ lk_next > Len(lk_rows)
    /\ ~(lk_updates > 0 /\ ~lk_args.dry_run)
    /\ lk_pc' = "done"
    /\ UNCHANGED <<lk_args, lk_world, lk_file, lk_rows, lk_next, lk_updates, lk_failures,
                   lk_guesses>>
    /\ UNCHANGED outside_lookup

LookupNext ==
    \/ BackfillSkip
    \/ BackfillFill
    \/ BackfillNoMatch
    \/ BackfillWrite
    \/ BackfillReturn

LookupSpec == LookupInit /\ [][LookupNext]_vars

----------------------------------------------------------------------------
\* main.py: how main works through one playlist (lines 735-1093): it sorts the
\* songs into those with an MP3 and those without, validates the unvalidated
\* ones of both kinds, saves the playlist and downloads the missing songs it
\* holds to be valid.

MaxSongs == 2

\* a row of the playlist; key stands for its (artist, title)
Song(key, album, validated) == [key |-> key, album |-> album, validated |-> validated]

NoSong == Song(0, "", FALSE)

SongAlbums == {"", " ", "OK Computer"}

\* the playlists deduplicate_and_sort_songs can leave: no key twice, in order
SongLists ==
    UNION {{[i \in 1..n |-> Song(i, f[i].album, f[i].validated)] :
               f \in [1..n -> [album : SongAlbums, validated : BOOLEAN]]} :
           n \in 1..MaxSongs}

\* [x for x in seq if keep(x)]
RECURSIVE Filter(_, _)
Filter(seq, keep) ==
    IF seq = <<>> THEN <<>>
    ELSE (IF Head(seq) \in keep THEN <<Head(seq)>> ELSE <<>>) \o Filter(Tail(seq), keep)

\* lines 796-812: the songs with an MP3 in music_dir, and those without
ExistingSongs(songs, disk) == Filter(songs, {s \in Range(songs) : s.key \in disk})

MissingSongs(songs, disk) == Filter(songs, {s \in Range(songs) : s.key \notin disk})

\* lines 890-892 and 956-958
Unvalidated(songs) == Filter(songs, {s \in Range(songs) : ~s.validated})

\* lines 953-955
PreValidated(songs) == Filter(songs, {s \in Range(songs) : s.validated})

\* what verified and verified_album answer for a song
SongAnswers == {"yes", "no"}

AlbumAnswers == {"yes", "no", "raises"}

\* perform_song_validation: [status, song, invalid_album], the last being what
\* it appends to invalid_albums
PerformSongValidation(song, song_ok, album_ok) ==
    IF song_ok = "no"
    THEN [status |-> "song_invalid", song |-> NoSong, invalid_album |-> <<>>]
    ELSE IF Strip(song.album) # "" /\ album_ok = "no"
    THEN [status |-> "album_failed", song |-> NoSong,
          invalid_album |-> <<[key |-> song.key, album |-> Strip(song.album),
                               reason |-> "not_validated"]>>]
    ELSE IF Strip(song.album) # "" /\ album_ok = "raises"
    THEN [status |-> "album_failed", song |-> NoSong,
          invalid_album |-> <<[key |-> song.key, album |-> Strip(song.album),
                               reason |-> "validation_error"]>>]
    ELSE [status |-> "valid", song |-> [song EXCEPT !.validated = TRUE],
          invalid_album |-> <<>>]

\* replace_song_entry: the first entry with the key of updated_song
ReplaceSongEntry(songs, updated_song) ==
    IF \E i \in DOMAIN songs : songs[i].key = updated_song.key
    THEN LET idx == CHOOSE i \in DOMAIN songs :
                        /\ songs[i].key = updated_song.key
                        /\ \A j \in 1..(i - 1) : songs[j].key # updated_song.key
         IN  [songs EXCEPT ![idx] = updated_song]
    ELSE songs

\* variant: the songs that were validated before are left out when
\* unvalidated songs are missing too
ValidSongsNewOnly(pre_validated_missing, unvalidated_missing, newly_validated) ==
    IF unvalidated_missing # <<>> THEN newly_validated ELSE pre_validated_missing

\* lines 998 and 1011
ValidSongs(pre_validated_missing, unvalidated_missing, newly_validated) ==
    IF unvalidated_missing # <<>>
    THEN pre_validated_missing \o newly_validated
    ELSE pre_validated_missing

MainInit ==
    /\ world = World(Ok(<<>>), Ok(<<>>), UnfetchedDetail, Ok(<<>>))
    /\ AlbumArtIdle
    /\ sp = TRUE
    /\ ValidatorsIdle
    /\ RankingOff
    /\ ScoringOff
    /\ LookupOff
    /\ mn_pc = "existing"
    /\ mn_dry_run \in BOOLEAN
    /\ mn_playlist \in SongLists
    /\ mn_songs = mn_playlist
    /\ mn_disk \in SUBSET {s.key : s \in Range(mn_playlist)}
    /\ mn_files = mn_disk
    /\ mn_next = 1
    /\ mn_newly_validated = <<>>
    /\ mn_invalid_songs = <<>>
    /\ mn_remove = <<>>
    /\ mn_validation_updates = FALSE
    /\ mn_invalid_albums = <<>>
    /\ mn_valid_songs = <<>>
    /\ mn_saved = <<>>
    /\ mn_verdicts = <<>>
    /\ mn_downloads = <<>>
    /\ InjectOff

\* one pass of either validation loop (lines 898-924 and 968-997) over song
MainValidate(song, song_ok, album_ok) ==
    LET result == PerformSongValidation(song, song_ok, album_ok)
    IN  /\ mn_invalid_albums' = mn_invalid_albums \o result.invalid_album
        /\ mn_verdicts' = Append(mn_verdicts, [key |-> song.key, status |-> result.status,
                                                phase |-> mn_pc])
        /\ mn_next' = mn_next + 1
        /\ IF result.status = "valid" /\ result.song # NoSong
           THEN /\ mn_songs' = ReplaceSongEntry(mn_songs, result.song)
                /\ mn_newly_validated' =
                      IF mn_pc = "missing" THEN Append(mn_newly_validated, result.song)
                      ELSE mn_newly_validated
                /\ mn_validation_updates' = TRUE
                /\ UNCHANGED <<mn_invalid_songs, mn_remove>>
           ELSE IF result.status = "album_failed"
           THEN UNCHANGED <<mn_songs, mn_newly_validated, mn_validation_updates,
                            mn_invalid_songs, mn_remove>>
           ELSE /\ mn_invalid_songs' = Append(mn_invalid_songs, song)
                /\ mn_remove' = Append(mn_remove, song)
                /\ UNCHANGED <<mn_songs, mn_newly_validated, mn_validation_updates>>

\* lines 886-924: an unvalidated song that has its MP3 is validated
MainValidateExisting ==
    /\ mn_pc = "existing"
    /\ LET unvalidated_existing == Unvalidated(ExistingSongs(mn_playlist, mn_disk))
       IN  /\ mn_next <= Len(unvalidated_existing)
           /\ \E song_ok \in SongAnswers, album_ok \in AlbumAnswers :
                 MainValidate(unvalidated_existing[mn_next], song_ok, album_ok)
    /\ UNCHANGED <<mn_pc, mn_dry_run, mn_playlist, mn_disk, mn_files, mn_valid_songs,
                   mn_saved, mn_downloads>>
    /\ UNCHANGED outside_main

\* lines 929-948: the MP3s of the invalid existing songs are deleted; unlink
\* may fail for any of them, which is reported and passed over
MainDeleteInvalid ==
    /\ mn_pc = "existing"
    /\ mn_next > Len(Unvalidated(ExistingSongs(mn_playlist, mn_disk)))
    /\ \E unlinked \in SUBSET {s.key : s \in Range(mn_invalid_songs)} :
          mn_files' = mn_files \ unlinked
    /\ mn_invalid_songs' = <<>>
    /\ mn_next' = 1
    /\ mn_pc' = "missing"
    /\ UNCHANGED <<mn_dry_run, mn_playlist, mn_songs, mn_disk, mn_newly_validated, mn_remove,
                   mn_validation_updates, mn_invalid_albums, mn_valid_songs, mn_saved,
                   mn_verdicts, mn_downloads>>
    /\ UNCHANGED outside_main

\* lines 953-997: an unvalidated song without MP3 is validated
MainValidateMissing ==
    /\ mn_pc = "missing"
    /\ LET unvalidated_missing == Unvalidated(MissingSongs(mn_playlist, mn_disk))
       IN  /\ mn_next <= Len(unvalidated_missing)
           /\ \E song_ok \in SongAnswers, album_ok \in AlbumAnswers :
                 MainValidate(unvalidated_missing[mn_next], song_ok, album_ok)
    /\ UNCHANGED <<mn_pc, mn_dry_run, mn_playlist, mn_disk, mn_files, mn_valid_songs,
                   mn_saved, mn_downloads>>
    /\ UNCHANGED outside_main

\* lines 998-1033: valid_songs is put together and the playlist is saved
MainCombine ==
    /\ mn_pc = "missing"
    /\ LET missing_songs == MissingSongs(mn_playlist, mn_disk)
           kept == Filter(mn_songs, Range(mn_songs) \ Range(mn_remove))
       IN  /\ mn_next > Len(Unvalidated(missing_songs))
           /\ mn_valid_songs' = ValidSongs(PreValidated(missing_songs),
                                           Unvalidated(missing_songs), mn_newly_validated)
           /\ mn_songs' = IF mn_remove # <<>> THEN kept ELSE mn_songs
           /\ mn_saved' = IF mn_validation_updates \/ mn_remove # <<>>
                          THEN <<IF mn_remove # <<>> THEN kept ELSE mn_songs>>
                          ELSE mn_saved
    /\ mn_next' = 1
    /\ mn_pc' = "download"
    /\ UNCHANGED <<mn_dry_run, mn_playlist, mn_disk, mn_files, mn_newly_validated,
                   mn_invalid_songs, mn_remove, mn_validation_updates, mn_invalid_albums,
                   mn_verdicts, mn_downloads>>
    /\ UNCHANGED outside_main

\* lines 1045-1050: a dry run downloads nothing
MainSkipDownloads ==
    /\ mn_pc = "download"
    /\ mn_dry_run
    /\ mn_pc' = "done"
    /\ UNCHANGED <<mn_dry_run, mn_playlist, mn_songs, mn_disk, mn_files, mn_next,
                   mn_newly_validated, mn_invalid_songs, mn_remove, mn_validation_updates,
                   mn_invalid_albums, mn_valid_songs, mn_saved, mn_verdicts, mn_downloads>>
    /\ UNCHANGED outside_main

\* how youtube_to_mp3 and tag_mp3 end for one song:
\*   "ok"                    the MP3 is written and tagged
\*   "called_process_error"  yt-dlp fails; the song is counted as failed
\*   "tag_error"             the MP3 is written, tag_mp3 raises
DownloadResults == {"ok", "called_process_error", "tag_error"}

\* lines 1051-1073: one pass of the download loop
MainDownload ==
    /\ mn_pc = "download"
    /\ ~mn_dry_run
    /\ mn_next <= Len(mn_valid_songs)
    /\ \E result \in DownloadResults :
          /\ mn_downloads' = Append(mn_downloads, [key |-> mn_valid_songs[mn_next].key,
                                                    song |-> mn_valid_songs[mn_next],
                                                    result |-> result])
          /\ mn_files' = IF result = "called_process_error" THEN mn_files
                         ELSE mn_files \cup {mn_valid_songs[mn_next].key}
          /\ mn_pc' = IF result = "tag_error" THEN "raised" ELSE mn_pc
    /\ mn_next' = mn_next + 1
    /\ UNCHANGED <<mn_dry_run, mn_playlist, mn_songs, mn_disk, mn_newly_validated,
                   mn_invalid_songs, mn_remove, mn_validation_updates, mn_invalid_albums,
                   mn_valid_songs, mn_saved, mn_verdicts>>
    /\ UNCHANGED outside_main

\* lines 1075-1093: every valid song was tried; the summary is printed
MainSummary ==
    /\ mn_pc = "download"
    /\ ~mn_dry_run
    /\ mn_next > Len(mn_valid_songs)
    /\ mn_pc' = "done"
    /\ UNCHANGED <<mn_dry_run, mn_playlist, mn_songs, mn_disk, mn_files, mn_next,
                   mn_newly_validated, mn_invalid_songs, mn_remove, mn_validation_updates,
                   mn_invalid_albums, mn_valid_songs, mn_saved, mn_verdicts, mn_downloads>>
    /\ UNCHANGED outside_main

MainNext ==
    \/ MainValidateExisting
    \/ MainDeleteInvalid
    \/ MainValidateMissing
    \/ MainCombine
    \/ MainSkipDownloads
    \/ MainDownload
    \/ MainSummary

MainSpec == MainInit /\ [][MainNext]_vars

----------------------------------------------------------------------------
\* inject_story_snippet.py: wait_for_track_and_inject (lines 443-493) polls
\* the station until the target song plays, then pushes the story with one
\* telnet command.

MaxSeconds == 3

\* what one get_now_playing call answers: the song playing is the target or
\* not, with the seconds it has left (timed is FALSE when the field
\* remaining is absent), or the request fails and requests raises
NowPlaying ==
    {status \in [kind : {"ok"}, is_match : BOOLEAN, timed : BOOLEAN, remaining : 0..1] :
        ~status.timed => status.remaining = 0}
        \cup {[kind |-> "http_error", is_match |-> FALSE, timed |-> FALSE, remaining |-> 0]}

\* what send_telnet_command answers: a log with a response line, a log
\* without one, or the request fails and requests raises
TelnetResponses == {"request_id", "no_response", "http_error"}

\* extract_telnet_response
ExtractTelnetResponse(response) ==
    IF response = "request_id" THEN "42" ELSE "None"

\* lines 469-483: this poll makes the function send the command
InjectsNow(status, track_detected, lead_seconds) ==
    IF status.is_match
    THEN ~status.timed \/ status.remaining <= lead_seconds
    ELSE track_detected

\* line 488: the condition under which the function raises RuntimeError
TimedOut(pushed_request_id, track_detected) ==
    pushed_request_id = "None" /\ ~track_detected

InjectInit ==
    /\ world = World(Ok(<<>>), Ok(<<>>), UnfetchedDetail, Ok(<<>>))
    /\ AlbumArtIdle
    /\ sp = TRUE
    /\ ValidatorsIdle
    /\ RankingOff
    /\ ScoringOff
    /\ LookupOff
    /\ MainOff
    /\ ij_pc = "called"
    /\ ij_args \in [station_id : {"None", "1"}, lead_seconds : 0..1,
                    timeout_seconds : 0..MaxSeconds]
    /\ ij_clock = 0
    /\ ij_track_detected = FALSE
    /\ ij_pushed_request_id = "None"
    /\ ij_polls = <<>>
    /\ ij_commands = <<>>

\* lines 453-454: without a station id nothing is tried
InjectNoStation ==
    /\ ij_pc = "called"
    /\ ij_args.station_id = "None"
    /\ ij_pc' = "runtime_error"
    /\ UNCHANGED <<ij_args, ij_clock, ij_track_detected, ij_pushed_request_id, ij_polls,
                   ij_commands>>
    /\ UNCHANGED outside_inject

\* lines 456-462: the deadline is set
InjectStart ==
    /\ ij_pc = "called"
    /\ ij_args.station_id # "None"
    /\ ij_pc' = "loop"
    /\ UNCHANGED <<ij_args, ij_clock, ij_track_detected, ij_pushed_request_id, ij_polls,
                   ij_commands>>
    /\ UNCHANGED outside_inject

\* lines 463-486 and 488-493: one pass of the loop before the deadline.  The
\* pass either sends the command and leaves the loop, after which the
\* function returns, or sleeps at least one second.
InjectPoll ==
    /\ ij_pc = "loop"
    /\ ij_clock < ij_args.timeout_seconds
    /\ \E status \in NowPlaying :
          /\ ij_polls' = Append(ij_polls, status)
          /\ IF status.kind = "http_error"
             THEN /\ ij_pc' = "http_error"
                  /\ UNCHANGED <<ij_clock, ij_track_detected, ij_pushed_request_id,
                                 ij_commands>>
             ELSE IF InjectsNow(status, ij_track_detected, ij_args.lead_seconds)
             THEN \E response \in TelnetResponses :
                     /\ ij_track_detected' = (ij_track_detected \/ status.is_match)
                     /\ ij_commands' = Append(ij_commands,
                                              [poll |-> Len(ij_polls) + 1,
                                               response |-> response])
                     /\ ij_pushed_request_id' =
                           IF response = "http_error" THEN ij_pushed_request_id
                           ELSE ExtractTelnetResponse(response)
                     /\ ij_pc' =
                           IF response = "http_error" THEN "http_error"
                           ELSE IF TimedOut(ExtractTelnetResponse(response),
                                            ij_track_detected \/ status.is_match)
                           THEN "runtime_error"
                           ELSE "returned"
                     /\ UNCHANGED ij_clock
             ELSE /\ ij_track_detected' = (ij_track_detected \/ status.is_match)
                  /\ \E slept \in 1..2 : ij_clock' = ij_clock + slept
                  /\ UNCHANGED <<ij_pc, ij_pushed_request_id, ij_commands>>
    /\ UNCHANGED ij_args
    /\ UNCHANGED outside_inject

\* lines 463 and 488-493: the deadline has passed
InjectDeadline ==
    /\ ij_pc = "loop"
    /\ ij_clock >= ij_args.timeout_seconds
    /\ ij_pc' = IF TimedOut(ij_pushed_request_id, ij_track_detected)
                THEN "runtime_error" ELSE "returned"
    /\ UNCHANGED <<ij_args, ij_clock, ij_track_detected, ij_pushed_request_id, ij_polls,
                   ij_commands>>
    /\ UNCHANGED outside_inject

InjectNext ==
    \/ InjectNoStation
    \/ InjectStart
    \/ InjectPoll
    \/ InjectDeadline

InjectSpec == InjectInit /\ [][InjectNext]_vars

\* ------------------------------------------------------------------------
\* Properties
\* ------------------------------------------------------------------------
\* the attempts of one phase, in the order they were made
PhaseTrace(phase) == SelectSeq(trace, LAMBDA t : t.phase = phase)

Floor == ConfidenceFloor * 100

ClearsFloor(c) == c.final_score >= Floor

SomeClears == \E i \in DOMAIN candidates : ClearsFloor(candidates[i])

\* C1: attempts short-circuit on the first success: an attempt that returned
\* true is the last attempt of its call, the call returns at once, the legacy
\* fallback is not run after a primary success, and nothing is logged.
C1_ShortCircuitOnFirstSuccess ==
    \A i \in DOMAIN trace :
        trace[i].ok =>
            /\ i = Len(trace)
            /\ pc = "returned"
            /\ outcome = "success"
            /\ log_file = log_before
            /\ (trace[i].phase = "primary" => ~legacy.searched)

\* a primary attempt succeeded while a lower-ranked eligible candidate with
\* another id was still waiting
C1_Witness ==
    /\ pc = "returned"
    /\ trace # <<>>
    /\ trace[Len(trace)].ok
    /\ trace[Len(trace)].phase = "primary"
    /\ next_candidate <= Len(eligible_candidates)
    /\ eligible_candidates[next_candidate].release.id \notin Range(attempted_release_ids) \cup {""}

\* C2: a failed attempt never aborts the resolution: it never makes the call
\* raise, the primary loop goes on through every eligible candidate in rank
\* order, and the call reaches the failure log only after every eligible
\* candidate was attempted and the legacy fallback was run.
C2_FailedAttemptNeverAborts ==
    LET primary == PhaseTrace("primary")
        Tried(k) ==
            \/ eligible_candidates[k].release.id = ""
            \/ \E i \in DOMAIN primary :
                  /\ primary[i].id = eligible_candidates[k].release.id
                  /\ primary[i].pos <= k
    IN  /\ pc = "raised" => trace = <<>>
        /\ \A i, j \in DOMAIN primary : i < j => primary[i].pos < primary[j].pos
        /\ pc = "primary" =>
              \A k \in DOMAIN eligible_candidates : k < next_candidate => Tried(k)
        /\ (pc \in {"legacy", "log"} \/ outcome = "exhausted") =>
              /\ legacy.searched
              /\ \A k \in DOMAIN eligible_candidates : Tried(k)

\* two primary attempts failed and the legacy fallback went on from there
C2_Witness ==
    /\ pc = "legacy"
    /\ Len(PhaseTrace("primary")) >= 2
    /\ \A i \in DOMAIN trace : ~trace[i].ok

C3_WitnessFloor ==
    /\ pc = "legacy"
    /\ SomeClears
    /\ Len(eligible_candidates) >= 2
    /\ Len(eligible_candidates) < Len(candidates)
    /\ Len(PhaseTrace("primary")) = Len(eligible_candidates)

\* C4: within one call no release identity is attempted twice, counting the
\* primary attempts and the legacy attempts together.
C4_NoIdentityAttemptedTwice ==
    \A i, j \in DOMAIN trace : i < j => trace[i].id # trace[j].id

TitleEqualsAlbum(release) == StripLower(release.title) = StripLower(Album)

\* C5: when no scored candidate clears the floor and the resolution ends
\* without any successful attempt, every release of the legacy search whose
\* title equals the album case-insensitively (and that carries an identity)
\* has been attempted, whether or not the scored set held it.
C5_FallbackRescue ==
    (outcome = "exhausted" /\ ~SomeClears) =>
        \A i \in DOMAIN legacy.releases :
            (TitleEqualsAlbum(legacy.releases[i]) /\ legacy.releases[i].id # "") =>
                \E t \in DOMAIN trace : trace[t].id = legacy.releases[i].id

\* scored candidates exist, none clears the floor, and the legacy fallback
\* attempts a title-equal release that the primary phase had left out
C5_Witness ==
    /\ pc = "legacy"
    /\ candidates # <<>>
    /\ ~SomeClears
    /\ \E t \in DOMAIN trace :
          /\ trace[t].phase = "legacy"
          /\ trace[t].id \in {candidates[i].release.id : i \in DOMAIN candidates}
          /\ trace[t].id \notin {eligible_candidates[i].release.id : i \in DOMAIN eligible_candidates}
          /\ legacy.exact_matches[trace[t].pos].title # Album

\* What the legacy loop does with the skip set it is handed: it attempts
\* exactly the releases of its search whose title equals the album
\* case-insensitively (after trimming) and whose identity the primary phase
\* has not attempted, official albums first and, within each group, the
\* earliest parsed release date first.
LegacyAttemptsInOrder ==
    LET tried == PhaseTrace("legacy")
        primary_ids == {trace[i].id : i \in {k \in DOMAIN trace : trace[k].phase = "primary"}}
        Entry(t) == legacy.exact_matches[t.pos]
        Qualifies(e) == TitleEqualsAlbum(e) /\ e.id # "" /\ e.id \notin primary_ids
        OfficialAlbum(e) == e.status = "Official" /\ e.rg.present /\ e.rg.ptype = "Album"
        NotAfter(a, b) ==
            \/ OfficialAlbum(a) /\ ~OfficialAlbum(b)
            \/ /\ OfficialAlbum(a) = OfficialAlbum(b)
               /\ ParseReleaseDate(a.date) <= ParseReleaseDate(b.date)
        Count(seq, e) == Cardinality({i \in DOMAIN seq : seq[i] = e})
        finished == pc = "log" \/ outcome = "exhausted"
    IN  legacy.searched =>
          /\ \A i \in DOMAIN tried :
                /\ tried[i].pos \in DOMAIN legacy.exact_matches
                /\ Entry(tried[i]).id = tried[i].id
                /\ Qualifies(Entry(tried[i]))
          /\ \A i, j \in DOMAIN tried :
                i < j => /\ tried[i].pos < tried[j].pos
                         /\ NotAfter(Entry(tried[i]), Entry(tried[j]))
          /\ (finished \/ pc = "legacy") =>
                \A e \in Range(legacy.releases) \cup Range(legacy.exact_matches) :
                    Count(legacy.exact_matches, e)
                        = IF TitleEqualsAlbum(e) THEN Count(legacy.releases, e) ELSE 0
          /\ finished =>
                \A k \in DOMAIN legacy.exact_matches :
                    Qualifies(legacy.exact_matches[k]) =>
                        \E i \in DOMAIN tried : tried[i].pos = k

\* C6: the legacy fallback attempts exactly the releases of its search whose
\* title equals the album case-insensitively (after trimming) and whose
\* identity has not already been attempted, by the primary phase or by the
\* fallback itself, official albums first and, within each group, the
\* earliest parsed release date first.
C6_LegacyAttemptsExactTitleInOrder ==
    /\ LegacyAttemptsInOrder
    /\ \A j \in DOMAIN trace :
          trace[j].phase = "legacy" => \A i \in 1..(j - 1) : trace[i].id # trace[j].id

\* the legacy fallback tried an official album after skipping an identity the
\* primary phase had attempted, although its search listed them the other
\* way round
C6_Witness ==
    /\ pc = "log"
    /\ Len(PhaseTrace("primary")) >= 1
    /\ Len(PhaseTrace("legacy")) >= 1
    /\ Len(legacy.exact_matches) > Len(PhaseTrace("legacy"))
    /\ legacy.exact_matches # ExactMatches(legacy.releases)

\* the legacy fallback tried two releases in the order of its sort key, not
\* in the order its search listed them
C6_WitnessOrder ==
    /\ pc = "log"
    /\ Len(PhaseTrace("legacy")) = 2
    /\ legacy.exact_matches # legacy.releases

IsPrefix(a, b) == Len(a) <= Len(b) /\ SubSeq(b, 1, Len(a)) = a

NoResults(response) ==
    \/ response.kind = "ok" /\ response.list = <<>>
    \/ response.kind = "wse"
    \/ response.kind = "type_error" /\ response.retry = "wse"
    \/ response.kind = "type_error" /\ response.retry = "ok" /\ response.list = <<>>

NothingFound ==
    /\ NoResults(world.rg)
    /\ NoResults(world.rel)
    /\ world.legacy.kind = "ok"
    /\ world.legacy.list = <<>>

ReasonTaxonomy ==
    {"no_releases", "no_exact_case_insensitive_match", "no_cover_art_found_for_exact_title",
     "no_cover_art_found_for_any_matching_release", "provider_error", "unexpected_error"}

\* C9: the reason of every failure log entry belongs to the closed taxonomy.
C9_ReasonsInTaxonomy ==
    \A i \in DOMAIN log_file : log_file[i].reason \in ReasonTaxonomy

\* C10: the value a call returns after a successful attempt differs from the
\* value a call returns after exhausting every strategy.
C10_ResultTellsSuccessFromFailure ==
    \A a, b \in results :
        (a.outcome = "success" /\ b.outcome = "exhausted") => a.returned # b.returned

\* the providers of w with every failing call replaced by a call that
\* returns nothing
QuietSearch(response) ==
    IF response.kind = "ok" \/ (response.kind = "type_error" /\ response.retry = "ok")
    THEN Ok(response.list)
    ELSE Ok(<<>>)

QuietGroup(group) ==
    IF group.exp.kind = "ok" THEN group ELSE [group EXCEPT !.exp = Expansion("ok", <<>>)]

QuietWorld(w) ==
    LET rg == QuietSearch(w.rg)
    IN  [rg |-> [rg EXCEPT !.list = [i \in DOMAIN rg.list |-> QuietGroup(rg.list[i])]],
         rel |-> QuietSearch(w.rel),
         detail |-> [r \in RelIds |->
                       IF w.detail[r].kind = "ok" THEN w.detail[r]
                       ELSE Detail("empty", w.detail[r].release)],
         legacy |-> QuietSearch(w.legacy)]

\* a call that got past candidate collection has the candidates it would
\* have had if every failing provider call had returned nothing
FailedCallsContributeNothing ==
    pc \in {"primary", "legacy", "log", "returned"} =>
        candidates = CollectReleaseCandidates(QuietWorld(world), <<>>).candidates

\* C11: no error of a provider call (release-group search, expansion, release
\* search, detail fetch, legacy search) makes embed_from_artist_album raise;
\* the failing call contributes no candidates and the call goes on with the
\* remaining providers, the attempts and the legacy fallback.
C11_ProviderErrorsSwallowed ==
    /\ pc # "raised"
    /\ FailedCallsContributeNothing

\* C12: when writing the failure log fails, the error stays inside _log_skip:
\* embed_from_artist_album returns normally, as it does after a write that
\* went well.
C12_LogWriteFailureNotPropagated ==
    log_write \in LogWrites \ {"ok"} =>
        /\ pc = "returned"
        /\ outcome = "exhausted"
        /\ returned = "None"

\* a call with failed attempts whose log entry could not be synced, and a
\* log that could not be opened before
C12_Witness ==
    /\ log_write = "sync_error"
    /\ pc = "returned"
    /\ trace # <<>>
    /\ log_before = <<>>
    /\ calls = 2

\* the provider functions verified runs stop at the first that confirms
VerifiedShortCircuits ==
    vcall.fn = "verified" =>
        \A i, j \in DOMAIN consulted : i < j => ~consulted[i].confirmed

\* C13: a verification call goes through the providers in the order Spotify,
\* MusicBrainz, iTunes, and once a provider has confirmed, no later provider
\* is queried in that call; for verified and for verified_album.
C13_FixedOrderShortCircuit ==
    /\ Len(consulted) <= Len(Providers)
    /\ \A i \in DOMAIN consulted : consulted[i].provider = Providers[i]
    /\ \A i, j \in DOMAIN consulted :
          (i < j /\ consulted[i].confirmed) => ~consulted[j].asked

C14_WitnessFalse ==
    /\ vpc = "returned"
    /\ vcall.fn = "verified"
    /\ Len(consulted) = 3
    /\ \A i \in DOMAIN consulted : consulted[i].asked
    /\ ~vresult

\* C15: once verified / verified_album has returned for a tuple of arguments,
\* every later call with the same tuple returns the same value and issues no
\* provider call, however many calls with other tuples came in between.
C15_MemoizedForProcessLifetime ==
    vpc = "returned" =>
        \A h \in vhistory :
            (h.fn = vcall.fn /\ h.args = vcall.args) =>
                /\ vresult = h.value
                /\ \A i \in DOMAIN consulted : ~consulted[i].asked

\* as long as the tuple is still in the cache of the function, the call is
\* served from it
ServedFromCacheWhileHeld ==
    (vpc = "returned" /\ vcall.cached) =>
        /\ consulted = <<>>
        /\ \E h \in vhistory : h.fn = vcall.fn /\ h.args = vcall.args /\ h.value = vresult

\* every sighting of a release in the expanded release groups, with the
\* score the sighting alone gives it (lines 318-338)
GroupSightings(w) ==
    LET ranked == ReleaseGroupCandidates(GuardedSearch(w.rg).list,
                                         NormalizeString(Artist), NormalizeString(Album))
        Releases(g) == SortedGroupReleases(ranked[g].group.exp.releases)
    IN  UNION {{[id |-> Releases(g)[k].id, source |-> "release-group",
                 score |-> ranked[g].score - (g - 1) * 500 - (k - 1) * 200, at |-> <<g, k>>] :
                  k \in {j \in DOMAIN Releases(g) : Releases(g)[j].id # ""}} :
               g \in {h \in DOMAIN ranked :
                        ranked[h].group.id # "" /\ ranked[h].group.exp.kind = "ok"}}

\* every sighting of a release in the release search (lines 372-377)
SearchSightings(w) ==
    LET hits == GuardedSearch(w.rel).list
    IN  {[id |-> hits[i].id, source |-> "release-search",
          score |-> ScoreReleaseSearchEntry(hits[i], NormalizeString(Artist),
                                            NormalizeString(Album)) - (i - 1) * 150,
          at |-> <<0, i>>] :
            i \in {j \in DOMAIN hits : hits[j].id # ""}}

Sightings(w) == GroupSightings(w) \cup SearchSightings(w)

Highest(S) == CHOOSE m \in S : \A x \in S : x <= m

\* C16: a release sighted more than once during candidate generation has as
\* its preliminary score the maximum of the scores of its sightings and as
\* its provenance the union of the adapters that sighted it; every sighted
\* release has exactly one merged entry, and the candidates carry the merged
\* score and provenance.  This is stated where candidate generation has just
\* returned: the candidates and the answers of the provider stay as they are
\* for the rest of the call.
C16_MergedScoreIsMaximum ==
    (pc = "primary" /\ next_candidate = 1) =>
        LET entries == PreliminaryScores(world).entries
            seen == Sightings(world)
            Of(id) == {s \in seen : s.id = id}
        IN  /\ {entries[i].id : i \in DOMAIN entries} = {s.id : s \in seen}
            /\ \A i, j \in DOMAIN entries : entries[i].id = entries[j].id => i = j
            /\ \A i \in DOMAIN entries :
                  /\ entries[i].score = Highest({s.score : s \in Of(entries[i].id)})
                  /\ entries[i].sources = {s.source : s \in Of(entries[i].id)}
            /\ \A c \in DOMAIN candidates :
                  \E i \in DOMAIN entries :
                      /\ candidates[c].base_score = entries[i].score
                      /\ candidates[c].sources = entries[i].sources
                      /\ world.detail[entries[i].id].release = candidates[c].release

\* a candidate sighted by both adapters, the later sighting scoring higher
\* than an earlier one
C16_Witness ==
    /\ pc = "primary"
    /\ \E c \in DOMAIN candidates :
          /\ candidates[c].sources = {"release-group", "release-search"}
          /\ \E s, t \in Sightings(world) :
                /\ s.id = candidates[c].release.id
                /\ t.id = s.id
                /\ s.source = "release-group"
                /\ t.source = "release-search"
                /\ s.score < t.score
                /\ candidates[c].base_score = t.score

\* a release sighted in two expanded groups, the second sighting scoring
\* higher than the first
C16_WitnessGroups ==
    /\ pc = "primary"
    /\ \E s, t \in GroupSightings(world) :
          /\ s.id = t.id
          /\ s.at[1] < t.at[1]
          /\ s.score < t.score
          /\ \E c \in DOMAIN candidates :
                candidates[c].release.id = s.id /\ candidates[c].base_score = t.score

\* a date strptime accepts in one of the three formats
Parseable(date) == ParseReleaseDate(date) # DateMax

\* a ranks strictly before b: higher final score, or the same score and an
\* earlier parsed date (a date that cannot be parsed is later than all)
RanksBefore(a, b) ==
    \/ a.final_score > b.final_score
    \/ /\ a.final_score = b.final_score
       /\ ParseReleaseDate(a.primary_date) < ParseReleaseDate(b.primary_date)

Least(a, b) == IF a <= b THEN a ELSE b

\* C17: the list returned is ordered by final score descending, ties by
\* parsed release date ascending with missing or unparseable dates after
\* every parseable one, and holds at most 14 candidates: the first 14 of
\* that ordering of the candidates scored, which are the entries among the
\* 28 best preliminary scores whose full record could be fetched.
C17_RankedByScoreThenDate ==
    rank_pc = "ranked" =>
        LET n == Len(rank_entries)
            Fetched(i) == rank_details[rank_entries[i].id].kind = "ok"
            PoolIds == {rank_pool[k].release.id : k \in DOMAIN rank_pool}
            OutIds == {rank_out[k].release.id : k \in DOMAIN rank_out}
            AtLeastAsGood(i) == {j \in 1..n : j # i /\ rank_entries[j].score >= rank_entries[i].score}
            Better(i) == {j \in 1..n : rank_entries[j].score > rank_entries[i].score}
        IN  \* the candidates scored
            /\ \A k, l \in DOMAIN rank_pool :
                  rank_pool[k].release.id = rank_pool[l].release.id => k = l
            /\ \A k \in DOMAIN rank_pool :
                  \E i \in 1..n :
                      /\ rank_entries[i].id = rank_pool[k].release.id
                      /\ Fetched(i)
                      /\ Cardinality(Better(i)) < MAX_TOTAL_CANDIDATES * 2
                      /\ rank_pool[k].base_score = rank_entries[i].score
                      /\ rank_pool[k].release = rank_details[rank_entries[i].id].release
            /\ \A i \in 1..n :
                  (Fetched(i) /\ rank_entries[i].id \notin PoolIds)
                      => Cardinality(AtLeastAsGood(i)) >= MAX_TOTAL_CANDIDATES * 2
            /\ Len(rank_pool) <= MAX_TOTAL_CANDIDATES * 2
            \* the list returned
            /\ Len(rank_out) = Least(MAX_TOTAL_CANDIDATES, Len(rank_pool))
            /\ \A k \in DOMAIN rank_out : \E l \in DOMAIN rank_pool : rank_out[k] = rank_pool[l]
            /\ \A k, l \in DOMAIN rank_out :
                  k < l => /\ rank_out[k].release.id # rank_out[l].release.id
                           /\ ~RanksBefore(rank_out[l], rank_out[k])
                           /\ (rank_out[k].final_score = rank_out[l].final_score
                                 /\ ~Parseable(rank_out[k].primary_date))
                                => ~Parseable(rank_out[l].primary_date)
            /\ \A l \in DOMAIN rank_pool :
                  rank_pool[l].release.id \notin OutIds
                      => \A k \in DOMAIN rank_out : ~RanksBefore(rank_pool[l], rank_out[k])

\* more than 28 preliminary scores, more than 14 candidates scored, and in
\* the list returned a tie on the score between a dated candidate and one
\* whose date cannot be parsed
C17_Witness ==
    /\ rank_pc = "ranked"
    /\ Len(rank_entries) > MAX_TOTAL_CANDIDATES * 2
    /\ Len(rank_pool) > MAX_TOTAL_CANDIDATES
    /\ Len(rank_out) = MAX_TOTAL_CANDIDATES
    /\ \E k, l \in DOMAIN rank_out :
          /\ k < l
          /\ rank_out[k].final_score = rank_out[l].final_score
          /\ Parseable(rank_out[k].primary_date)
          /\ ~Parseable(rank_out[l].primary_date)

\* some full records could not be fetched and the list is shorter than 14
C17_WitnessHoles ==
    /\ rank_pc = "ranked"
    /\ Len(rank_entries) > MAX_TOTAL_CANDIDATES
    /\ Len(rank_pool) < Len(rank_entries)
    /\ Len(rank_out) = Len(rank_pool)
    /\ Len(rank_out) >= 2

Reversed(seq) == [i \in DOMAIN seq |-> seq[Len(seq) + 1 - i]]

IdsOfCandidates(cands) == [i \in DOMAIN cands |-> cands[i].release.id]

\* C18: for a fixed set of candidates the ranking yields one sequence of
\* release identities, whatever the order in which the providers returned
\* them: candidates that tie on final score and date are ordered the same
\* way when the same preliminary scores arrive in the opposite order.
C18_RankingIgnoresProviderOrder ==
    rank_pc = "ranked" =>
        LET other == ScoredPool(Reversed(rank_entries), rank_details)
        IN  Range(other) = Range(rank_pool)
              => IdsOfCandidates(RankCandidates(other)) = IdsOfCandidates(rank_out)

\* run on the same preliminary scores in the same order, the ranking gives
\* the list it gave, and candidates that tie on score and date keep the order
\* of the preliminary ranking
TiesKeepPreliminaryOrder ==
    rank_pc = "ranked" =>
        /\ RankCandidates(ScoredPool(rank_entries, rank_details)) = rank_out
        /\ \A k, l \in DOMAIN rank_out :
              (k < l /\ ~RanksBefore(rank_out[k], rank_out[l]))
                  => \E i, j \in DOMAIN rank_pool :
                        i < j /\ rank_pool[i] = rank_out[k] /\ rank_pool[j] = rank_out[l]

\* the attempt operation is deterministic as far as the calls a and b show:
\* every attempt on one identity, in either call, ended the same way
SameAttemptResults(a, b) ==
    \A i \in DOMAIN a.attempts, j \in DOMAIN b.attempts :
        a.attempts[i].id = b.attempts[j].id => a.attempts[i].ok = b.attempts[j].ok

DeterministicAttempts(a, b) ==
    SameAttemptResults(a, a) /\ SameAttemptResults(b, b) /\ SameAttemptResults(a, b)

\* C19: a call of embed_from_artist_album that has ended did what every
\* earlier call with the same inputs did, whenever the attempt operation
\* answered the same way for each identity: the same ranking, the same
\* sequence of attempted identities, the same release chosen or the same
\* failure reason; the release cache the earlier call filled changes nothing
C19_ResolveIdempotent ==
    pc \in {"returned", "raised"} =>
        \A a \in past_calls : DeterministicAttempts(a, Summary) => a = Summary

\* a second call that fails as the first did, after attempts, with releases
\* served from the cache the first call filled
C19_Witness ==
    /\ pc = "returned"
    /\ calls = 2
    /\ outcome = "exhausted"
    /\ Len(trace) >= 2
    /\ Summary \in past_calls
    /\ \E i \in DOMAIN candidates : candidates[i].release.id \in DOMAIN release_cache
    /\ \A k \in DOMAIN detail_calls : detail_calls[k] \notin DOMAIN release_cache
                                       \/ \A l \in DOMAIN detail_calls :
                                              detail_calls[l] = detail_calls[k] => l = k

\* a second call that chooses the release the first chose, after a failed attempt
C19_WitnessSuccess ==
    /\ pc = "returned"
    /\ calls = 2
    /\ outcome = "success"
    /\ Len(trace) >= 2
    /\ Summary \in past_calls

\* how many times get_release_by_id was called with the id
DetailCalls(id) == Cardinality({k \in DOMAIN detail_calls : detail_calls[k] = id})

\* C20 as stated: across all resolutions get_release_by_id is called at most
\* once for each release id
C20_DetailFetchedAtMostOnce ==
    \A id \in RelIds : DetailCalls(id) <= 1

\* C20: a release id whose record was fetched is in the cache and
\* get_release_by_id was called exactly once for it; an id it was called
\* for more than once is one whose fetch failed or returned no release
C20_FoundDetailFetchedOnce ==
    \A id \in RelIds :
        /\ id \in DOMAIN release_cache => DetailCalls(id) = 1
        /\ (DetailCalls(id) >= 1 /\ id \notin DOMAIN release_cache)
               => world.detail[id].kind # "ok"

\* the second resolution ranks a release the first one ranked: one provider call
C20_Witness ==
    /\ pc = "primary"
    /\ calls = 2
    /\ \E id \in DOMAIN release_cache :
          /\ DetailCalls(id) = 1
          /\ \E i \in DOMAIN candidates : candidates[i].release.id = id
          /\ \E a \in past_calls : \E i \in DOMAIN a.ranking : a.ranking[i] = id

\* the variants scored so far, and the scores of one of them
ScoredVariants == {e.variant : e \in score_table}

ScoreOf(v) == CHOOSE e \in score_table : e.variant = v

\* the release-level score of a candidate the release search alone sighted:
\* its preliminary score plus the score of its full record (line 406)
Total(v) == ScoreOf(v).entry + ScoreOf(v).release

Official == [Plain EXCEPT !.official = TRUE]

OfType(t) == [Plain EXCEPT !.secondary = t]

OfficialOfType(t) == [Plain EXCEPT !.official = TRUE, !.secondary = t]

\* C21: the status Official strictly raises the release-level score of an
\* otherwise identical candidate, each of the secondary types Compilation,
\* Interview, Audiobook, Spokenword and DJ-mix strictly lowers it, and the
\* change when both are applied is the sum of the two changes
C21_OfficialAndBlockedTypeAdditive ==
    \A t \in BlockedSecondaryGroup :
        {Plain, Official, OfType(t), OfficialOfType(t)} \subseteq ScoredVariants =>
            /\ Total(Official) > Total(Plain)
            /\ Total(OfType(t)) < Total(Plain)
            /\ Total(OfficialOfType(t)) - Total(Plain)
                 = (Total(Official) - Total(Plain)) + (Total(OfType(t)) - Total(Plain))

\* what the two functions do: Official raises both scores, the two secondary
\* types _score_release_search_entry knows lower the preliminary score, no
\* secondary type changes the score of the full record, and the changes add up
OfficialAndKnownTypeAdditive ==
    \A t \in BlockedSecondaryGroup :
        {Plain, Official, OfType(t), OfficialOfType(t)} \subseteq ScoredVariants =>
            /\ ScoreOf(Official).entry > ScoreOf(Plain).entry
            /\ ScoreOf(Official).release > ScoreOf(Plain).release
            /\ t \in BlockedSecondarySearch => ScoreOf(OfType(t)).entry < ScoreOf(Plain).entry
            /\ t \notin BlockedSecondarySearch => ScoreOf(OfType(t)).entry = ScoreOf(Plain).entry
            /\ ScoreOf(OfType(t)).release = ScoreOf(Plain).release
            /\ Total(OfficialOfType(t)) - Total(Plain)
                 = (Total(Official) - Total(Plain)) + (Total(OfType(t)) - Total(Plain))

WithCover(kind) == [Plain EXCEPT !.cover = kind]

\* C25: for otherwise identical releases _score_release puts a confirmed
\* front cover above some artwork, some artwork above unknown artwork
\* information (no cover-art-archive entry), and unknown artwork information
\* above artwork explicitly reported as none
C25_ArtworkAdjustmentOrdered ==
    LET Place(kind) ==
            CASE kind = "front" -> 1 [] kind = "artwork" -> 2
              [] kind = "unknown" -> 3 [] kind = "none_reported" -> 4
    IN  \A a, b \in CoverKinds :
            ({WithCover(a), WithCover(b)} \subseteq ScoredVariants /\ Place(a) < Place(b))
                => ScoreOf(WithCover(a)).release > ScoreOf(WithCover(b)).release

\* the order the code gives: a front cover, some artwork, an entry reporting
\* neither, no entry
ArtworkBranchesOrdered ==
    LET Place(kind) ==
            CASE kind = "front" -> 1 [] kind = "artwork" -> 2
              [] kind = "none_reported" -> 3 [] kind = "unknown" -> 4
    IN  \A a, b \in CoverKinds :
            ({WithCover(a), WithCover(b)} \subseteq ScoredVariants /\ Place(a) < Place(b))
                => ScoreOf(WithCover(a)).release > ScoreOf(WithCover(b)).release

\* C22: guess_album never returns, and backfill_playlist never writes, a
\* match whose confidence is below min_confidence
C22_NoGuessBelowMinConfidence ==
    /\ \A i \in DOMAIN lk_guesses :
          lk_guesses[i].guess.found
              => lk_guesses[i].guess.match.confidence >= lk_args.min_confidence
    /\ \A i \in DOMAIN lk_guesses :
          (lk_pc = "done" /\ Strip(lk_file[lk_guesses[i].row].album) # "")
              => lk_guesses[i].guess.match.confidence >= lk_args.min_confidence

\* the candidates of the primary source, and the studio albums among them
PrimaryCandidates == AlbumCandidates(lk_world, lk_args.prefer_spotify)

StudioAlbums(matches) == SelectSeq(matches, LAMBDA m : IsAlbum(m) /\ ~IsLive(m))

C23_WitnessFallback ==
    /\ lk_guesses # <<>>
    /\ StudioAlbums(PrimaryCandidates) # <<>>
    /\ lk_guesses[1].guess.match.source # PrimaryCandidates[1].source

MetaFields ==
    {"release_title", "status_hint", "disambiguation_hint", "release_group_id",
     "release_group_title"}

\* what each sighting of a release supplies for the metadata fields, in the
\* order of the sightings: the expanded groups, then the release search
\* (lines 344-353 and 383-393)
MetaSightings(w) ==
    LET ranked == ReleaseGroupCandidates(GuardedSearch(w.rg).list,
                                         NormalizeString(Artist), NormalizeString(Album))
        Releases(g) == SortedGroupReleases(ranked[g].group.exp.releases)
        hits == GuardedSearch(w.rel).list
    IN  UNION {{[id |-> Releases(g)[k].id, at |-> g * 100 + k,
                 fields |-> [release_title |-> Releases(g)[k].title,
                             status_hint |-> Releases(g)[k].status,
                             disambiguation_hint |-> Releases(g)[k].disambiguation,
                             release_group_id |-> ranked[g].group.id,
                             release_group_title |-> ranked[g].group.title]] :
                  k \in {j \in DOMAIN Releases(g) : Releases(g)[j].id # ""}} :
               g \in {h \in DOMAIN ranked :
                        ranked[h].group.id # "" /\ ranked[h].group.exp.kind = "ok"}}
        \cup {[id |-> hits[i].id, at |-> 10000 + i,
               fields |-> [release_title |-> hits[i].title,
                           status_hint |-> hits[i].status,
                           disambiguation_hint |-> hits[i].disambiguation,
                           release_group_id |-> hits[i].rg.id,
                           release_group_title |-> hits[i].rg.title]] :
                i \in {j \in DOMAIN hits : hits[j].id # ""}}

\* the sightings of a release that supply a value for the field
Supplying(w, id, f) == {s \in MetaSightings(w) : s.id = id /\ s.fields[f] # ""}

FirstOf(S) == CHOOSE s \in S : \A t \in S : s.at <= t.at

\* the fields of Fs of every merged candidate hold the value of the first
\* sighting that supplies one
FirstNonEmptyWins(Fs) ==
    pc \in {"primary", "legacy", "log", "returned"} =>
        LET entries == PreliminaryScores(world).entries
        IN  /\ \A i \in DOMAIN entries : \A f \in Fs :
                  LET supplying == Supplying(world, entries[i].id, f)
                  IN  supplying # {} => entries[i].meta[f] = FirstOf(supplying).fields[f]
            /\ \A c \in DOMAIN candidates :
                  \E i \in DOMAIN entries :
                      /\ candidates[c].meta = entries[i].meta
                      /\ world.detail[entries[i].id].release = candidates[c].release

\* C24: each metadata field of a merged candidate (release title, status
\* hint, disambiguation hint, release-group id, release-group title) has the
\* value of the first sighting of the release that supplies a non-empty
\* value for it
C24_FirstNonEmptyWinsPerField == FirstNonEmptyWins(MetaFields)

\* what holds: first non-empty wins for the three fields set under `if`
FirstNonEmptyWinsGuarded ==
    FirstNonEmptyWins({"release_title", "status_hint", "disambiguation_hint"})

\* C26: every candidate in the list _collect_release_candidates returns has
\* a non-empty release id
C26_CandidatesHaveIdentity ==
    \A c \in DOMAIN candidates : candidates[c].release.id # ""

\* what holds: every merged entry is keyed by a non-empty id, and no attempt
\* is made without an id
KeysAndAttemptsHaveIdentity ==
    /\ pc \in {"primary", "legacy", "log", "returned"} =>
          \A i \in DOMAIN PreliminaryScores(world).entries :
              PreliminaryScores(world).entries[i].id # ""
    /\ \A t \in DOMAIN trace : trace[t].id # ""

\* the failure entry the current call appended to the log
Logged == pc = "returned" /\ outcome = "exhausted" /\ log_write # "open_error"

\* C27: a failure entry carries the reason no_releases only if no search of
\* that call returned anything, and never after candidates were scored and
\* attempted
C27_NoReleasesMeansNothingReturned ==
    (Logged /\ log_file[Len(log_file)].reason = "no_releases") =>
        /\ NoResults(world.rg)
        /\ NoResults(world.rel)
        /\ trace = <<>>

\* what holds: the reason no_releases says that the legacy search returned an
\* empty list, whatever the strict searches found
NoReleasesMeansLegacySearchEmpty ==
    (Logged /\ log_file[Len(log_file)].reason = "no_releases") =>
        /\ world.legacy.kind = "ok"
        /\ world.legacy.list = <<>>

\* a call that attempted a scored candidate and still logged no_releases
NoReleasesAfterAttempts ==
    /\ Logged
    /\ log_file[Len(log_file)].reason = "no_releases"
    /\ trace # <<>>
    /\ candidates # <<>>

\* the ids the attempts of the current call were made on, in the order of
\* the attempts
AttemptedIds == [t \in DOMAIN trace |-> trace[t].id]

\* C29: the attempted_release_ids of a failure entry are exactly the ids the
\* attempt operation was invoked on during that call, in invocation order,
\* the attempts of the primary loop before those of the legacy fallback
C29_AttemptedIdsFaithful ==
    Logged =>
        /\ log_file[Len(log_file)].attempted_release_ids = AttemptedIds
        /\ \A i, j \in DOMAIN trace :
              (trace[i].phase = "legacy" /\ trace[j].phase = "primary") => j < i

\* a failure entry after an attempt of the primary loop and one of the
\* legacy fallback
C29_Witness ==
    /\ Logged
    /\ \E i, j \in DOMAIN trace : trace[i].phase = "primary" /\ trace[j].phase = "legacy"
    /\ log_file[Len(log_file)].attempted_release_ids = AttemptedIds

\* the statuses perform_song_validation returned for the song in this run
Verdicts(key) == {mn_verdicts[v].status : v \in {u \in DOMAIN mn_verdicts : mn_verdicts[u].key = key}}

\* the missing songs whose Validated flag was true in the playlist
AlreadyValidatedMissing ==
    {s \in Range(mn_playlist) : s.validated /\ s.key \notin mn_disk}

\* C28: main downloads a song only if it was missing and either its
\* Validated flag was true in the playlist or perform_song_validation
\* returned valid for it in this run; a song found song_invalid or
\* album_failed is not downloaded; every already validated missing song is in
\* the list that is downloaded, and is tried when the downloads run through
C28_DownloadOnlyVerified ==
    /\ \A d \in DOMAIN mn_downloads :
          LET key == mn_downloads[d].key
          IN  /\ key \notin mn_disk
              /\ \/ \E s \in Range(mn_playlist) : s.key = key /\ s.validated
                 \/ "valid" \in Verdicts(key)
              /\ Verdicts(key) \cap {"song_invalid", "album_failed"} = {}
    /\ mn_pc \in {"download", "done", "raised"} =>
          AlreadyValidatedMissing \subseteq Range(mn_valid_songs)
    /\ (mn_pc = "done" /\ ~mn_dry_run) =>
          \A s \in AlreadyValidatedMissing :
              \E d \in DOMAIN mn_downloads : mn_downloads[d].key = s.key

\* the downloads ran through for a playlist with an already validated
\* missing song and a missing song that failed its validation
C28_Witness ==
    /\ mn_pc = "done"
    /\ ~mn_dry_run
    /\ \E s \in AlreadyValidatedMissing :
          \E d \in DOMAIN mn_downloads : mn_downloads[d].key = s.key
    /\ \E s \in Range(mn_playlist) :
          /\ s.key \notin mn_disk
          /\ Verdicts(s.key) \cap {"song_invalid", "album_failed"} # {}
          /\ \A d \in DOMAIN mn_downloads : mn_downloads[d].key # s.key

\* a song validated in this run was downloaded
C28_WitnessNewlyValidated ==
    /\ mn_pc = "done"
    /\ \E d \in DOMAIN mn_downloads :
          /\ "valid" \in Verdicts(mn_downloads[d].key)
          /\ mn_downloads[d].result = "ok"

\* the target song was seen playing in a poll before the command went out
SentAfterTrackObserved ==
    \A c \in DOMAIN ij_commands :
        \E p \in 1..ij_commands[c].poll : ij_polls[p].is_match

\* C30: a call of wait_for_track_and_inject ends either by returning after
\* it sent the command exactly once, the target song having been seen
\* playing, or by raising RuntimeError without having sent the command; it
\* never returns without having sent the command
C30_SentOnceOrRuntimeError ==
    /\ ij_pc = "returned" => (Len(ij_commands) = 1 /\ SentAfterTrackObserved)
    /\ ij_pc = "runtime_error" => ij_commands = <<>>

\* what holds: the command is sent at most once, only after the target song
\* was seen playing, and RuntimeError is raised only when nothing was sent
\* and the song was never seen
SentAtMostOnceAfterTrackObserved ==
    /\ Len(ij_commands) <= 1
    /\ SentAfterTrackObserved
    /\ ij_pc = "runtime_error" => (ij_commands = <<>> /\ ~ij_track_detected)
    /\ (ij_pc = "returned" /\ ij_commands = <<>>) => ij_track_detected

\* the target song was seen playing, the deadline passed while it still had
\* time left, and the call returned without sending anything
ReturnedWithoutSending ==
    /\ ij_pc = "returned"
    /\ ij_commands = <<>>
    /\ ij_track_detected

====
